---------------------------- MODULE Spec2Model ----------------------------
(***************************************************************************)
(* A model of go-kenka/ginpb: the protoc plugin that turns google.api.http *)
(* rules into gin routes (internal/gen), the code its templates emit       *)
(* (route registration and the generated handler), and the gin middleware  *)
(* package (middleware, auth, recovery).                                   *)
(*                                                                         *)
(* A Go string is a sequence of one-character strings.                     *)
(***************************************************************************)
EXTENDS Integers, Sequences, FiniteSets, TLC

VARIABLES
    ruleIn,      \* the rule handed to buildHTTPRule, or NoRule
    ruleOut,     \* what buildHTTPRule made of it, or NoResult
    file,        \* the proto file handed to GenerateFile: [services], or NoFile
    omitempty,   \* the plugin's omitempty flag
    gpc,         \* GenerateFile's place: "idle", "start", "method", "done", "exit", "panic"
    svcIdx,      \* generateFileContent's position in file.Services
    methIdx,     \* genService's position in service.Methods
    bindIdx,     \* genService's position in rule.AdditionalBindings
    sdMethods,   \* sd.Methods of the service being generated
    methodSets,  \* the package variable methodSets: GoName -> count
    stderr,      \* what was printed to standard error
    generated,   \* the generated file: NoFile (nil), or the services executed
    sd,          \* the service descriptor the running code was generated from
    mpc,         \* the program's place: "idle", "setup", "ready", "serving", "done",
                 \* "crashed"
    mg,          \* the MiddlewareGroup, or NoGroup
    given,       \* the arguments of NewMiddlewareGroup and of each Add, in call order
    reg,         \* the Register function called and its middlewares argument
    router,      \* the routes of the gin router: [method, path, handlers]
    req,         \* the request being served, or NoRequest
    ctx,         \* its gin.Context: [handlers, index, aborted, status, ...]
    stack,       \* the call stack of the goroutine serving it
    log,         \* the handlers and service methods that ran, in order
    panicked,    \* the value of the panic in flight, or "none"
    callIn,      \* the call of a library function being made, or NoCall
    callOut,     \* what the call returned, or NoResult
    handler,     \* one run of a generated handler: its descriptor, request and progress
    breaker      \* a client with CircuitBreakerMiddleware: its counters and the clock

ruleVars == <<ruleIn, ruleOut>>
genVars == <<file, omitempty, gpc, svcIdx, methIdx, bindIdx, sdMethods, methodSets,
             stderr, generated>>
setupVars == <<sd, mg, given, reg, router>>
serveVars == <<req, ctx, stack, log, panicked>>
mwVars == <<setupVars, mpc, serveVars>>

callVars == <<callIn, callOut>>

unitVars == <<handler, breaker>>

vars == <<ruleVars, genVars, mwVars, callVars, unitVars>>

NoRule == [none |-> TRUE]
NoResult == [none |-> TRUE]
NoFile == [none |-> TRUE]
NoGroup == [none |-> TRUE]
NoRequest == [none |-> TRUE]
NoContext == [none |-> TRUE]
NoCall == [fn |-> "none"]

(***************************************************************************)
(* Strings                                                                 *)
(***************************************************************************)
Letters == {"a", "b", "c", "d", "e", "f", "g", "h", "i", "j", "k", "l", "m",
            "n", "o", "p", "q", "r", "s", "t", "u", "v", "w", "x", "y", "z"}
Digits == {"0", "1", "2", "3", "4", "5", "6", "7", "8", "9"}

\* strings.HasPrefix / strings.HasSuffix / strings.TrimPrefix
HasPrefix(s, p) == Len(s) >= Len(p) /\ SubSeq(s, 1, Len(p)) = p
HasSuffix(s, p) == Len(s) >= Len(p) /\ SubSeq(s, Len(s) - Len(p) + 1, Len(s)) = p
TrimPrefix(s, p) == IF HasPrefix(s, p) THEN SubSeq(s, Len(p) + 1, Len(s)) ELSE s

\* strings.TrimSpace, for the one kind of white space the model writes
RECURSIVE TrimLeft(_)
TrimLeft(s) == IF s # <<>> /\ Head(s) = " " THEN TrimLeft(Tail(s)) ELSE s
RECURSIVE TrimRight(_)
TrimRight(s) ==
    IF s # <<>> /\ s[Len(s)] = " " THEN TrimRight(SubSeq(s, 1, Len(s) - 1)) ELSE s
TrimSpace(s) == TrimRight(TrimLeft(s))

\* The first index >= i of s holding a character of set cs, or 0.
RECURSIVE IndexFrom(_, _, _)
IndexFrom(s, i, cs) ==
    IF i > Len(s) THEN 0
    ELSE IF s[i] \in cs THEN i
    ELSE IndexFrom(s, i + 1, cs)

\* strings.Split(s, sep) for a one-character sep: always at least one piece.
\* The piece being read began at index start.
RECURSIVE splitFrom(_, _, _, _)
splitFrom(s, sep, i, start) ==
    IF i > Len(s) THEN <<SubSeq(s, start, Len(s))>>
    ELSE IF s[i] = sep THEN <<SubSeq(s, start, i - 1)>> \o splitFrom(s, sep, i + 1, i + 1)
    ELSE splitFrom(s, sep, i + 1, start)

Split(s, sep) == splitFrom(s, sep, 1, 1)

\* strings.Join(pieces, sep)
RECURSIVE Join(_, _)
Join(pieces, sep) ==
    IF pieces = <<>> THEN <<>>
    ELSE IF Len(pieces) = 1 THEN pieces[1]
    ELSE pieces[1] \o <<sep>> \o Join(Tail(pieces), sep)

\* strings.ReplaceAll(s, "*", ".*")
RECURSIVE StarToDotStar(_)
StarToDotStar(s) ==
    IF s = <<>> THEN <<>>
    ELSE (IF Head(s) = "*" THEN <<".", "*">> ELSE <<Head(s)>>)
         \o StarToDotStar(Tail(s))

(***************************************************************************)
(* internal/gen: path templates                                            *)
(***************************************************************************)
Braces == {"{", "}"}
\* The class [a-z.0-9_\s] of buildPathParams' pattern (case-insensitive).
NameChars == Letters \cup Digits \cup {".", "_", " "}

\* The longest prefix of s made of characters of cs (a greedy cs*).
RECURSIVE SpanOf(_, _)
SpanOf(s, cs) ==
    IF s # <<>> /\ Head(s) \in cs THEN <<Head(s)>> \o SpanOf(Tail(s), cs) ELSE <<>>

\* One match of {([a-z.0-9_\s]*)=?([^{}]*)}: inner is the text between the
\* braces at from and to, m1 the greedy group 1; "=" is taken when it follows,
\* and group 2 is the rest.
paramMatch(inner, m1, from, to) ==
    [name |-> m1, value |-> TrimPrefix(SubSeq(inner, Len(m1) + 1, Len(inner)), <<"=">>),
     from |-> from, to |-> to]

\* pattern.FindAllStringSubmatch(path, -1) from index i on: the matches left
\* to right and not overlapping. Neither group can hold a brace, so a match
\* starts at a "{" whose next brace (at next, 0 for none) is a "}" and ends
\* there.
RECURSIVE paramMatches(_, _)
RECURSIVE matchAt(_, _, _)
matchAt(path, open, next) ==
    IF next = 0 \/ path[next] = "{" THEN paramMatches(path, open + 1)
    ELSE <<paramMatch(SubSeq(path, open + 1, next - 1),
                      SpanOf(SubSeq(path, open + 1, next - 1), NameChars),
                      open, next)>>
         \o paramMatches(path, next + 1)

paramMatches(path, i) ==
    IF i > Len(path) THEN <<>>
    ELSE IF path[i] # "{" THEN paramMatches(path, i + 1)
    ELSE matchAt(path, i, IndexFrom(path, i + 1, Braces))

NoValue == <<"nil">>

\* res[name] = &m[2] or nil
paramValue(name, value) == IF Len(name) > 1 /\ Len(value) > 0 THEN value ELSE NoValue

\* The last of the matches ms whose trimmed name is n
lastMatch(ms, n) ==
    CHOOSE k \in DOMAIN ms :
        /\ TrimSpace(ms[k].name) = n
        /\ \A j \in DOMAIN ms : j > k => TrimSpace(ms[j].name) # n

\* buildPathParams' loop over the matches: a later match of a name overwrites
paramsOf(ms) ==
    [n \in {TrimSpace(ms[k].name) : k \in DOMAIN ms} |->
        paramValue(n, ms[lastMatch(ms, n)].value)]

\* buildPathParams: the map from each placeholder's trimmed name to its
\* pattern (NoValue for nil).
buildPathParams(path) == paramsOf(paramMatches(path, 1))

\* buildPathParams' first test
endsWithSlash(path) == HasSuffix(path, <<"/">>)


\* One attempt of replacePath's pattern {([\s]*NAME[\s]*)=?([^{}]*)} at the
\* character after a "{": a backtracking match in the pattern's order of
\* preference (each * greedy, "=" taken when it can be), which is the match
\* Go's regexp reports. NAME is the name read as a pattern: "." matches any
\* character. st is the part of the pattern being matched, k the position in
\* NAME. The index of the closing "}", or 0 when there is no match.
RECURSIVE rpMatch(_, _, _, _, _)
rpMatch(path, name, p, st, k) ==
    LET more == p <= Len(path)
        try(a, b) == IF a # 0 THEN a ELSE b
    IN  CASE st = "s1" ->
                IF more /\ path[p] = " "
                THEN try(rpMatch(path, name, p + 1, "s1", 1),
                         rpMatch(path, name, p, "name", 1))
                ELSE rpMatch(path, name, p, "name", 1)
          [] st = "name" ->
                IF k > Len(name) THEN rpMatch(path, name, p, "s2", k)
                ELSE IF more /\ (name[k] = "." \/ name[k] = path[p])
                THEN rpMatch(path, name, p + 1, "name", k + 1)
                ELSE 0
          [] st = "s2" ->
                IF more /\ path[p] = " "
                THEN try(rpMatch(path, name, p + 1, "s2", k),
                         rpMatch(path, name, p, "eq", k))
                ELSE rpMatch(path, name, p, "eq", k)
          [] st = "eq" ->
                IF more /\ path[p] = "="
                THEN try(rpMatch(path, name, p + 1, "rest", k),
                         rpMatch(path, name, p, "rest", k))
                ELSE rpMatch(path, name, p, "rest", k)
          [] OTHER ->
                IF more /\ path[p] \notin Braces
                THEN try(rpMatch(path, name, p + 1, "rest", k),
                         0)
                ELSE IF more /\ path[p] = "}" THEN p ELSE 0

\* pattern.FindStringIndex(path): the leftmost match, as <<from, to>>, or <<>>.
RECURSIVE rpFind(_, _, _)
rpFind(path, name, i) ==
    IF i > Len(path) THEN <<>>
    ELSE IF path[i] = "{" /\ rpMatch(path, name, i + 1, "s1", 1) # 0
    THEN <<i, rpMatch(path, name, i + 1, "s1", 1)>>
    ELSE rpFind(path, name, i + 1)

\* replacePath's rewrite of the match idx: name:value, "*" written ".*"; the
\* braces are not written back.
replaceAt(name, value, path, idx) ==
    IF Len(idx) > 0
    THEN SubSeq(path, 1, idx[1] - 1) \o name \o <<":">> \o StarToDotStar(value)
         \o SubSeq(path, idx[2] + 1, Len(path))
    ELSE path

\* replacePath: the first placeholder matching name is rewritten
replacePath(name, value, path) == replaceAt(name, value, path, rpFind(path, name, 1))

\* transformPath's test of one piece of the path
isParamPiece(p) ==
    Len(p) > 0 /\ ((p[1] = "{" /\ p[Len(p)] = "}") \/ p[1] = ":")

\* p[1:len(p)-1] of a piece of one character: slice bounds out of range.
transformPathPanics(path) ==
    \E p \in {Split(path, "/")[k] : k \in DOMAIN Split(path, "/")} :
        isParamPiece(p) /\ Len(p) = 1

\* transformPath's loop over the pieces
transformPieces(paths) ==
    [i \in DOMAIN paths |->
        IF isParamPiece(paths[i])
        THEN <<":">> \o SubSeq(paths[i], 2, Len(paths[i]) - 1)
        ELSE paths[i]]

\* transformPath: {xx} --> :xx, piece by piece between the "/"
transformPath(path) == Join(transformPieces(Split(path, "/")), "/")

\* extractPathParams: the m[1] of every match of {([^}]+)}, from index i on.
\* A match starts at a "{" that a character other than "}" follows and ends at
\* the next "}".
RECURSIVE extractFrom(_, _)
RECURSIVE extractAt(_, _, _)
extractAt(path, open, close) ==
    IF close = 0 THEN extractFrom(path, open + 1)
    ELSE <<SubSeq(path, open + 1, close - 1)>> \o extractFrom(path, close + 1)

extractFrom(path, i) ==
    IF i + 1 > Len(path) THEN <<>>
    ELSE IF path[i] # "{" \/ path[i + 1] = "}" THEN extractFrom(path, i + 1)
    ELSE extractAt(path, i, IndexFrom(path, i + 2, {"}"}))

extractPathParams(path) == extractFrom(path, 1)

\* camelCase: _my_field_name_2 becomes XMyFieldName_2
Upper(c) ==
    CASE c = "a" -> "A" [] c = "b" -> "B" [] c = "c" -> "C" [] c = "d" -> "D"
      [] c = "e" -> "E" [] c = "f" -> "F" [] c = "g" -> "G" [] c = "h" -> "H"
      [] c = "i" -> "I" [] c = "j" -> "J" [] c = "k" -> "K" [] c = "l" -> "L"
      [] c = "m" -> "M" [] c = "n" -> "N" [] c = "o" -> "O" [] c = "p" -> "P"
      [] c = "q" -> "Q" [] c = "r" -> "R" [] c = "s" -> "S" [] c = "t" -> "T"
      [] c = "u" -> "U" [] c = "v" -> "V" [] c = "w" -> "W" [] c = "x" -> "X"
      [] c = "y" -> "Y" [] c = "z" -> "Z" [] OTHER -> c

isASCIILower(c) == c \in Letters
isASCIIDigit(c) == c \in Digits

\* The lower-case letters that follow index i of s
RECURSIVE lowerRun(_, _)
lowerRun(s, i) ==
    IF i + 1 <= Len(s) /\ isASCIILower(s[i + 1])
    THEN <<s[i + 1]>> \o lowerRun(s, i + 1)
    ELSE <<>>

\* camelCase's loop from index i of s
RECURSIVE camelFrom(_, _)
camelFrom(s, i) ==
    IF i > Len(s) THEN <<>>
    ELSE IF s[i] = "_" /\ i + 1 <= Len(s) /\ isASCIILower(s[i + 1])
    THEN camelFrom(s, i + 1)
    ELSE IF isASCIIDigit(s[i]) THEN <<s[i]>> \o camelFrom(s, i + 1)
    ELSE <<Upper(s[i])>> \o lowerRun(s, i)
         \o camelFrom(s, i + Len(lowerRun(s, i)) + 1)

camelCase(s) ==
    IF s = <<>> THEN <<>>
    ELSE IF s[1] = "_" THEN <<"X">> \o camelFrom(s, 2)
    ELSE camelFrom(s, 1)

camelCaseEach(subs) == [i \in DOMAIN subs |-> camelCase(subs[i])]

camelCaseVars(s) == Join(camelCaseEach(Split(s, ".")), ".")

(***************************************************************************)
(* internal/gen: messages, rules and method descriptors                    *)
(*                                                                         *)
(* A message is a function from its field names to field descriptors       *)
(* [kind, sub]: kind is "scalar", "map", "list" (a repeated field) or      *)
(* "message", and sub is the message of a "message" field.                 *)
(***************************************************************************)
Scalar == [kind |-> "scalar", sub |-> <<>>]
MapField == [kind |-> "map", sub |-> <<>>]
ListField == [kind |-> "list", sub |-> <<>>]
MessageField(m) == [kind |-> "message", sub |-> m]

\* buildMethodDesc's warning about the field fd of a path
kindWarning(fd) ==
    IF fd.kind = "map" THEN <<"WARN map in path">>
    ELSE IF fd.kind = "list" THEN <<"WARN list in path">>
    ELSE <<>>

\* The fields the next piece is looked up in: those of the message, for a
\* field that is neither a map nor a list and is of message kind.
fieldsAfter(fd, fields) == IF fd.kind = "message" THEN fd.sub ELSE fields

\* A set of warnings printed before the rest of a walk
warnThen(warns, rest) == [rest EXCEPT !.warns = warns \o @]

\* The walk of one placeholder's dotted name through the message's fields
\* (buildMethodDesc's inner loop), from piece i on: the warnings printed and
\* whether a piece names no field, which is the os.Exit(2). The piece is cut
\* at its first ":" before it is looked up.
RECURSIVE walkFields(_, _, _)
RECURSIVE walkField(_, _, _, _)
walkField(pieces, i, fields, field) ==
    IF field \notin DOMAIN fields
    THEN [warns |-> <<"ERROR field not found">>, exit |-> TRUE]
    ELSE warnThen(kindWarning(fields[field]),
                  walkFields(pieces, i + 1, fieldsAfter(fields[field], fields)))

walkFields(pieces, i, fields) ==
    IF i > Len(pieces) THEN [warns |-> <<>>, exit |-> FALSE]
    ELSE IF TrimSpace(pieces[i]) = <<>> THEN walkFields(pieces, i + 1, fields)
    ELSE walkField(pieces, i, fields, Split(pieces[i], ":")[1])

\* path = replacePath(v, *s, path) when s is not nil
pathAfter(v, s, path) == IF s # NoValue THEN replacePath(v, s, path) ELSE path

\* buildMethodDesc's loop over params, in the order `order` of the map's keys:
\* the path after the replacePath calls, the warnings, and whether it exited.
\* path1 is the path after the replacePath of order[i], w the walk of order[i].
RECURSIVE walkParams(_, _, _, _, _)
RECURSIVE walkParam(_, _, _, _, _, _)
walkParam(order, i, params, input, path1, w) ==
    IF w.exit THEN [path |-> path1, warns |-> w.warns, exit |-> TRUE]
    ELSE warnThen(w.warns, walkParams(order, i + 1, params, path1, input))

walkParams(order, i, params, path, input) ==
    IF i > Len(order) THEN [path |-> path, warns |-> <<>>, exit |-> FALSE]
    ELSE walkParam(order, i, params, input, pathAfter(order[i], params[order[i]], path),
                   walkFields(Split(order[i], "."), 1, input))

\* The orders in which Go may range over a map with these keys.
KeyOrders(keys) ==
    {o \in [1..Cardinality(keys) -> keys] : \A k \in keys : \E i \in DOMAIN o : o[i] = k}

\* buildPathParams' warning
slashWarning(path) == IF endsWithSlash(path) THEN <<"WARN path ends with /">> ELSE <<>>

\* What buildMethodDesc returns after its loop w over params: outcome "ok"
\* with the descriptor md, "exit" for os.Exit(2), "panic" for transformPath's
\* slice out of range; warns is what went to standard error.
methodDescOf(m, method, num, params, w) ==
    IF w.exit THEN [outcome |-> "exit", warns |-> w.warns]
    ELSE IF transformPathPanics(w.path) THEN [outcome |-> "panic", warns |-> w.warns]
    ELSE [outcome |-> "ok", warns |-> w.warns,
          md |-> [Name |-> m.goName, OriginalName |-> m.name, Num |-> num,
                  Path |-> transformPath(w.path), ClientPath |-> w.path,
                  Method |-> method, HasParams |-> Cardinality(DOMAIN params) > 0,
                  HasBody |-> FALSE, Body |-> <<>>, ResponseBody |-> <<>>,
                  PathParams |-> <<>>]]

\* buildMethodDesc with params the result of buildPathParams(path)
describe(m, method, path, num, order, params) ==
    warnThen(slashWarning(path),
             methodDescOf(m, method, num, params,
                          walkParams(order, 1, params, path, m.input)))

\* buildMethodDesc(g, m, method, path), with num the value of
\* methodSets[m.GoName] and order the order of the range over params.
buildMethodDesc(m, method, path, num, order) ==
    describe(m, method, path, num, order, buildPathParams(path))

\* A rule is [pattern, path, kind, body, responseBody, bindings]: pattern is
\* the field of the oneof that is set ("get", "put", "post", "delete",
\* "patch", "custom"), kind the verb of a custom pattern.
ruleMethod(rule) ==
    CASE rule.pattern = "get" -> "GET"
      [] rule.pattern = "put" -> "PUT"
      [] rule.pattern = "post" -> "POST"
      [] rule.pattern = "delete" -> "DELETE"
      [] rule.pattern = "patch" -> "PATCH"
      [] OTHER -> rule.kind

\* buildHTTPRule's warning about the body
bodyWarning(method, body) ==
    IF method = "GET" \/ method = "DELETE"
    THEN (IF body # <<>> THEN <<"WARN body should not be declared">> ELSE <<>>)
    ELSE (IF body = <<>> THEN <<"WARN does not declare a body">> ELSE <<>>)

\* md.Body and md.ResponseBody: "" for "*" and for "", else the Go field path
fieldPath(body) ==
    IF body = <<"*">> \/ body = <<>> THEN <<>> ELSE <<".">> \o camelCaseVars(body)

\* buildHTTPRule after its call r of buildMethodDesc
ruleDescOf(rule, method, r) ==
    IF r.outcome # "ok" THEN r
    ELSE [outcome |-> "ok",
          warns |-> r.warns \o bodyWarning(method, rule.body),
          md |-> [r.md EXCEPT !.PathParams = extractPathParams(rule.path),
                              !.HasBody = rule.body # <<>>,
                              !.Body = fieldPath(rule.body),
                              !.ResponseBody = fieldPath(rule.responseBody)]]

\* buildHTTPRule(g, m, rule)
buildHTTPRule(m, rule, num, order) ==
    ruleDescOf(rule, ruleMethod(rule),
               buildMethodDesc(m, ruleMethod(rule), rule.path, num, order))

\* The orders in which buildMethodDesc may range over the params of path
ParamOrders(path) == KeyOrders(DOMAIN buildPathParams(path))

(***************************************************************************)
(* internal/gen: GenerateFile                                              *)
(*                                                                         *)
(* A file is [services]; a service [goName, fullName, methods]; a method   *)
(* [name, goName, streaming, rule, input], streaming one of "unary",       *)
(* "client", "server" and rule NoRule when the method has no http option.  *)
(***************************************************************************)
isStreaming(method) == method.streaming \in {"client", "server"}

\* A hasHTTPRule that does not pass over the streaming methods
hasHTTPRuleOfAny(services) ==
    \E i \in DOMAIN services : \E j \in DOMAIN services[i].methods :
        services[i].methods[j].rule # NoRule

\* hasHTTPRule(services)
hasHTTPRule(services) ==
    \E i \in DOMAIN services : \E j \in DOMAIN services[i].methods :
        /\ ~isStreaming(services[i].methods[j])
        /\ services[i].methods[j].rule # NoRule

\* GenerateFile's first test: nil is returned and no file is generated.
generatesNothing(f, omit) ==
    Len(f.services) = 0 \/ (omit /\ ~hasHTTPRule(f.services))

\* fmt.Sprintf("/%s/%s", service.Desc.FullName(), method.Desc.Name())
defaultPath(service, method) == <<"/">> \o service.fullName \o <<"/">> \o method.name

\* const Operation<Service><Method> = "/<service full name>/<method>"
operationName(fullName, md) == <<"/">> \o fullName \o <<"/">> \o md.OriginalName

\* An execute whose MethodSets keeps the first descriptor of each Name
executeFirst(service, methods) ==
    LET names == {methods[i].Name : i \in DOMAIN methods}
        first(n) == CHOOSE i \in DOMAIN methods :
                      /\ methods[i].Name = n
                      /\ \A j \in DOMAIN methods : methods[j].Name = n => i <= j
    IN  [ServiceType |-> service.goName, ServiceName |-> service.fullName,
         Methods |-> methods, MethodSets |-> [n \in names |-> methods[first(n)]]]

\* serviceDesc.execute: MethodSets keeps, for each Name, the last descriptor of
\* sd.Methods with that name; the three templates are rendered from Methods
\* (the routes and handlers) and MethodSets (constants, interface, client).
execute(service, methods) ==
    LET names == {methods[i].Name : i \in DOMAIN methods}
        last(n) == CHOOSE i \in DOMAIN methods :
                     /\ methods[i].Name = n
                     /\ \A j \in DOMAIN methods : methods[j].Name = n => j <= i
    IN  [ServiceType |-> service.goName, ServiceName |-> service.fullName,
         Methods |-> methods, MethodSets |-> [n \in names |-> methods[last(n)]]]

curService == file.services[svcIdx]
curMethod == curService.methods[methIdx]

\* The state GenerateFile is left in by one more descriptor: r is what
\* buildHTTPRule or buildMethodDesc returned. os.Exit(2) and a panic end the
\* process with exit status 2; the deferred methodSets[m.GoName]++ has run
\* by then.
appendDesc(r, last) ==
    /\ stderr' = stderr \o r.warns
    /\ methodSets' = [methodSets EXCEPT ![curMethod.goName] = @ + 1]
    /\ IF r.outcome = "ok"
       THEN /\ sdMethods' = Append(sdMethods, r.md)
            /\ gpc' = gpc
            /\ IF last THEN methIdx' = methIdx + 1 /\ bindIdx' = 1
               ELSE methIdx' = methIdx /\ bindIdx' = bindIdx + 1
       ELSE /\ gpc' = IF r.outcome = "exit" THEN "exit" ELSE "panic"
            /\ UNCHANGED <<sdMethods, methIdx, bindIdx>>
    /\ UNCHANGED <<file, omitempty, svcIdx, generated>>

\* GenerateFile: nothing for a file without services, or with omitempty and
\* no rule; else the header is written and the services are generated.
GenerateFile ==
    /\ gpc = "start"
    /\ IF generatesNothing(file, omitempty)
       THEN gpc' = "done" /\ generated' = NoFile
       ELSE gpc' = "method" /\ generated' = [services |-> <<>>]
    /\ UNCHANGED <<file, omitempty, svcIdx, methIdx, bindIdx, sdMethods, methodSets,
                   stderr, ruleVars, mwVars, callVars, unitVars>>

inMethod ==
    /\ gpc = "method"
    /\ svcIdx <= Len(file.services)
    /\ methIdx <= Len(curService.methods)

\* genService: a streaming method is passed over
GenSkipStreaming ==
    /\ inMethod
    /\ isStreaming(curMethod)
    /\ methIdx' = methIdx + 1
    /\ UNCHANGED <<file, omitempty, gpc, svcIdx, bindIdx, sdMethods, methodSets,
                   stderr, generated, ruleVars, mwVars, callVars, unitVars>>

\* A genService that leaves out the additional bindings
GenBindingLeftOut ==
    /\ inMethod
    /\ ~isStreaming(curMethod)
    /\ curMethod.rule # NoRule
    /\ bindIdx <= Len(curMethod.rule.bindings)
    /\ bindIdx' = bindIdx + 1
    /\ UNCHANGED <<file, omitempty, gpc, svcIdx, methIdx, sdMethods, methodSets,
                   stderr, generated, ruleVars, mwVars, callVars, unitVars>>

\* genService: the next additional binding of the method's rule
GenBinding ==
    /\ inMethod
    /\ ~isStreaming(curMethod)
    /\ curMethod.rule # NoRule
    /\ bindIdx <= Len(curMethod.rule.bindings)
    /\ \E bind \in {curMethod.rule.bindings[bindIdx]} :
       \E order \in ParamOrders(bind.path) :
       \E r \in {buildHTTPRule(curMethod, bind, methodSets[curMethod.goName], order)} :
          appendDesc(r, FALSE)
    /\ UNCHANGED <<ruleVars, mwVars, callVars, unitVars>>

\* genService: the rule itself, after its additional bindings
GenPrimary ==
    /\ inMethod
    /\ ~isStreaming(curMethod)
    /\ curMethod.rule # NoRule
    /\ bindIdx > Len(curMethod.rule.bindings)
    /\ \E order \in ParamOrders(curMethod.rule.path) :
       \E r \in {buildHTTPRule(curMethod, curMethod.rule,
                               methodSets[curMethod.goName], order)} :
          appendDesc(r, TRUE)
    /\ UNCHANGED <<ruleVars, mwVars, callVars, unitVars>>

\* genService: a method without a rule, omitempty unset: POST /<service>/<method>
GenDefault ==
    /\ inMethod
    /\ ~isStreaming(curMethod)
    /\ curMethod.rule = NoRule
    /\ ~omitempty
    /\ \E path \in {defaultPath(curService, curMethod)} :
       \E order \in ParamOrders(path) :
       \E r \in {buildMethodDesc(curMethod, "POST", path, methodSets[curMethod.goName],
                                 order)} :
          appendDesc(r, TRUE)
    /\ UNCHANGED <<ruleVars, mwVars, callVars, unitVars>>

\* genService: a method without a rule, omitempty set: no route
GenOmit ==
    /\ inMethod
    /\ ~isStreaming(curMethod)
    /\ curMethod.rule = NoRule
    /\ omitempty
    /\ methIdx' = methIdx + 1
    /\ UNCHANGED <<file, omitempty, gpc, svcIdx, bindIdx, sdMethods, methodSets,
                   stderr, generated, ruleVars, mwVars, callVars, unitVars>>

\* genService's end: the service is rendered when it has a route
GenExecute ==
    /\ gpc = "method"
    /\ svcIdx <= Len(file.services)
    /\ methIdx > Len(curService.methods)
    /\ generated' = IF Len(sdMethods) # 0
                    THEN [services |-> Append(generated.services,
                                              execute(curService, sdMethods))]
                    ELSE generated
    /\ svcIdx' = svcIdx + 1
    /\ methIdx' = 1
    /\ bindIdx' = 1
    /\ sdMethods' = <<>>
    /\ UNCHANGED <<file, omitempty, gpc, methodSets, stderr, ruleVars, mwVars, callVars, unitVars>>

\* generateFileContent's loop is over: GenerateFile returns the file
GenReturn ==
    /\ gpc = "method"
    /\ svcIdx > Len(file.services)
    /\ gpc' = "done"
    /\ UNCHANGED <<file, omitempty, svcIdx, methIdx, bindIdx, sdMethods, methodSets,
                   stderr, generated, ruleVars, mwVars, callVars, unitVars>>

(***************************************************************************)
(* The generated code and the middleware package at run time               *)
(*                                                                         *)
(* A gin.HandlerFunc is a record whose kind says which function it is. A   *)
(* function-valued field of a config holds the function's name, "nil" for  *)
(* a field that is not set.                                                *)
(***************************************************************************)
StatusOK == 200
StatusNoContent == 204
StatusBadRequest == 400
StatusUnauthorized == 401
StatusForbidden == 403
StatusNotFound == 404
StatusInternalServerError == 500

\* func(c *gin.Context) { c.Header(id, "applied"); c.Next() }
Mark(id) == [kind |-> "mark", id |-> id]

\* _<Service>_<Name><Num>_HTTP_Handler(srv)
HTTPHandler(service, md) ==
    [kind |-> "handler", name |-> md.Name, num |-> md.Num,
     operation |-> operationName(service.ServiceName, md)]

PathSelector(path) == [type |-> "PathSelector", Path |-> path]
MethodSelector(method) == [type |-> "MethodSelector", Method |-> method]

\* A selector that matches every request
MatchAll(selector, r) == TRUE

\* PathSelector.Match and MethodSelector.Match
Match(selector, r) ==
    IF selector.type = "PathSelector" THEN r.Path = selector.Path
    ELSE r.Method = selector.Method

\* NewConditionalMiddleware(selector, middleware).Apply()
ConditionalMiddleware(selector, middleware) ==
    [kind |-> "conditional", selector |-> selector, middleware |-> middleware]

DefaultAuthConfig ==
    [Skipper |-> "nil", Validator |-> "nil", ErrorHandler |-> "defaultAuthErrorHandler"]

BearerAuthWithConfig(config) == [kind |-> "bearer", config |-> config]
BearerAuth == BearerAuthWithConfig(DefaultAuthConfig)

DefaultRecoveryConfig ==
    [Skipper |-> "nil", RecoveryHandler |-> "defaultRecoveryHandler",
     EnableStackTrace |-> FALSE, EnableDetailedError |-> FALSE]

RecoveryWithConfig(config) == [kind |-> "recovery", config |-> config]
Recovery == RecoveryWithConfig(DefaultRecoveryConfig)

\* config.Skipper != nil && config.Skipper(c), for the skipper that skips all
skips(config) == config.Skipper # "nil"

Bearer == <<"B", "e", "a", "r", "e", "r", " ">>
ValidToken == <<"t">>

\* config.Validator(c, token), for the validator that accepts ValidToken
validates(validator, token) == token = ValidToken

\* A handler that does not look whether the token is empty
bearerDecisionOfPrefix(config, auth) ==
    IF skips(config) THEN "next"
    ELSE IF auth = <<>> THEN "error"
    ELSE IF ~HasPrefix(auth, Bearer) THEN "error"
    ELSE IF config.Validator # "nil" /\ ~validates(config.Validator, TrimPrefix(auth, Bearer))
    THEN "error"
    ELSE "pass"

\* What BearerAuthWithConfig's handler does with the Authorization header
\* auth, before it calls anything: "next" when it is skipped, "error" when it
\* calls config.ErrorHandler, "pass" when it stores the token.
bearerDecision(config, auth) ==
    IF skips(config) THEN "next"
    ELSE IF auth = <<>> THEN "error"
    ELSE IF ~HasPrefix(auth, Bearer) THEN "error"
    ELSE IF TrimPrefix(auth, Bearer) = <<>> THEN "error"
    ELSE IF config.Validator # "nil" /\ ~validates(config.Validator, TrimPrefix(auth, Bearer))
    THEN "error"
    ELSE "pass"

APIKeyAuthWithConfig(config, headerName) ==
    [kind |-> "apikey", config |-> config, headerName |-> headerName]
JWTAuthWithConfig(config) == [kind |-> "jwt", config |-> config]

\* c.GetHeader(key) of the request r
GetHeader(r, key) ==
    CASE key = "Authorization" -> r.Authorization
      [] key = "Origin" -> r.Origin
      [] OTHER -> <<>>

\* What APIKeyAuthWithConfig's handler does with the header apiKey
apiKeyDecision(config, apiKey) ==
    IF skips(config) THEN "next"
    ELSE IF apiKey = <<>> THEN "error"
    ELSE IF config.Validator # "nil" /\ ~validates(config.Validator, apiKey) THEN "error"
    ELSE "pass"

\* JWTAuthWithConfig: the token is the header without "Bearer ", or the header
jwtToken(auth) == IF HasPrefix(auth, Bearer) THEN TrimPrefix(auth, Bearer) ELSE auth

\* What JWTAuthWithConfig's handler does with the Authorization header auth
jwtDecision(config, auth) ==
    IF skips(config) THEN "next"
    ELSE IF auth = <<>> THEN "error"
    ELSE IF jwtToken(auth) = <<>> THEN "error"
    ELSE IF config.Validator # "nil" /\ ~validates(config.Validator, jwtToken(auth))
    THEN "error"
    ELSE "pass"

\* contains(slice, item)
contains(slice, item) == \E i \in DOMAIN slice : slice[i] = item

\* regexp.MatchString("^" + q + "$", s) for a q of plain characters, "." and
\* starred characters
RECURSIVE matchString(_, _)
matchString(q, s) ==
    IF q = <<>> THEN s = <<>>
    ELSE IF Len(q) >= 2 /\ q[2] = "*"
    THEN \/ matchString(SubSeq(q, 3, Len(q)), s)
         \/ s # <<>> /\ q[1] \in {".", Head(s)} /\ matchString(q, Tail(s))
    ELSE s # <<>> /\ q[1] \in {".", Head(s)} /\ matchString(Tail(q), Tail(s))

\* matchWildcard(origin, pattern)
matchWildcard(origin, pattern) ==
    IF ~contains(pattern, "*") THEN origin = pattern
    ELSE matchString(StarToDotStar(pattern), origin)

\* isOriginAllowed(origin, allowedOrigins, allowWildcard)
isOriginAllowed(origin, allowedOrigins, allowWildcard) ==
    \E i \in DOMAIN allowedOrigins :
        \/ allowedOrigins[i] = <<"*">>
        \/ allowedOrigins[i] = origin
        \/ allowWildcard /\ matchWildcard(origin, allowedOrigins[i])

\* DefaultCORSConfig(); MaxAge is in hours
DefaultCORSConfig ==
    [Skipper |-> "nil", AllowOrigins |-> <<<<"*">>>>,
     AllowMethods |-> <<"GET", "POST", "PUT", "PATCH", "DELETE", "HEAD", "OPTIONS">>,
     AllowHeaders |-> <<"Origin", "Content-Length", "Content-Type", "Authorization">>,
     ExposeHeaders |-> <<>>, MaxAge |-> 12, AllowCredentials |-> FALSE,
     AllowAllOrigins |-> FALSE, AllowWildcard |-> FALSE]

\* CORSWithConfig(config), with its normalisation of the config
CORSWithConfig(config) ==
    [kind |-> "cors",
     config |-> IF config.AllowAllOrigins
                THEN [config EXCEPT !.AllowOrigins = <<<<"*">>>>] ELSE config]
CORS == CORSWithConfig(DefaultCORSConfig)

\* The headers that CORSWithConfig's handler sets on every request it does
\* not skip
corsHeaders(config, r) ==
    (IF config.AllowAllOrigins
        \/ isOriginAllowed(r.Origin, config.AllowOrigins, config.AllowWildcard)
     THEN (IF config.AllowAllOrigins \/ contains(config.AllowOrigins, <<"*">>)
           THEN {"Access-Control-Allow-Origin: *"}
           ELSE {"Access-Control-Allow-Origin: origin"})
     ELSE {})
    \cup (IF config.AllowCredentials THEN {"Access-Control-Allow-Credentials"} ELSE {})
    \cup (IF Len(config.ExposeHeaders) > 0 THEN {"Access-Control-Expose-Headers"} ELSE {})

\* The headers it adds to the answer of a preflight request
preflightHeaders(config, r) ==
    (IF Len(config.AllowMethods) > 0 THEN {"Access-Control-Allow-Methods"} ELSE {})
    \cup (IF Len(config.AllowHeaders) > 0 \/ r.RequestHeaders # ""
          THEN {"Access-Control-Allow-Headers"} ELSE {})
    \cup (IF config.MaxAge > 0 THEN {"Access-Control-Max-Age"} ELSE {})

\* DefaultLoggingConfig()
DefaultLoggingConfig ==
    [Output |-> "gin.DefaultWriter", Skipper |-> "nil", LogLatency |-> TRUE,
     LogMethod |-> TRUE, LogPath |-> TRUE, LogStatus |-> TRUE, LogUserAgent |-> TRUE,
     LogClientIP |-> TRUE, LogReferer |-> FALSE, LogOperation |-> TRUE,
     LogRequest |-> FALSE, LogResponse |-> FALSE]

\* LoggingConfig{}: no field is set
LoggingConfig ==
    [Output |-> "nil", Skipper |-> "nil", LogLatency |-> FALSE, LogMethod |-> FALSE,
     LogPath |-> FALSE, LogStatus |-> FALSE, LogUserAgent |-> FALSE,
     LogClientIP |-> FALSE, LogReferer |-> FALSE, LogOperation |-> FALSE,
     LogRequest |-> FALSE, LogResponse |-> FALSE]

LoggingWithConfig(config) == [kind |-> "logging", config |-> config]
Logging == LoggingWithConfig(DefaultLoggingConfig)

\* The LogEntry that LoggingWithConfig's handler builds after c.Next(), as far
\* as the request and the context decide it
LogEntry(config, r, cx) ==
    [Method |-> IF config.LogMethod THEN r.Method ELSE "",
     Path |-> IF config.LogPath THEN r.Path ELSE <<>>,
     Status |-> IF config.LogStatus THEN cx.status ELSE 0,
     Operation |-> IF config.LogOperation /\ "operation" \in DOMAIN cx.Keys
                   THEN cx.Keys["operation"] ELSE <<>>,
     Response |-> IF config.LogResponse THEN cx.body ELSE "none",
     Error |-> Len(cx.Errors) > 0]

\* NewOperationMiddleware(operation, middleware).Apply()
OperationMiddleware(operation, middleware) ==
    [kind |-> "operation", operation |-> operation, middleware |-> middleware]

\* mg.Wrap()
Wrap(group) == [kind |-> "wrap", middleware |-> group.middleware]

\* gin.Recovery()
GinRecovery == [kind |-> "ginRecovery"]

\* RecoveryFunc(f)
RecoveryFunc(f) == GinRecovery

\* c.Set(key, value)
Set(keys, key, value) == [k \in DOMAIN keys \cup {key} |-> IF k = key THEN value ELSE keys[k]]

\* c.JSON(code, obj) followed by c.Abort()
abortWith(cx, code) == [cx EXCEPT !.status = code, !.aborted = TRUE, !.body = "error"]

\* config.ErrorHandler(c, err) for a handler that is not nil:
\* defaultAuthErrorHandler answers 401 and aborts; "respond" is a handler
\* func(c *gin.Context, err error) { c.JSON(http.StatusForbidden, ...) }
errorHandled(cx, errorHandler) ==
    IF errorHandler = "defaultAuthErrorHandler" THEN abortWith(cx, StatusUnauthorized)
    ELSE [cx EXCEPT !.status = StatusForbidden, !.body = "error"]

\* What the generated handler leaves in the context. A failed binding has
\* answered 400 and aborted (gin's Bind functions) before the handler records
\* the error again; an error of the service method is recorded and nothing
\* is written; a reply is written as JSON with status 200.
handled(cx, outcome) ==
    IF outcome = "binderr"
    THEN [cx EXCEPT !.status = StatusBadRequest, !.aborted = TRUE,
                    !.Errors = @ \o <<"bind", "bind">>]
    ELSE IF outcome = "error" THEN [cx EXCEPT !.Errors = Append(@, "srv")]
    ELSE IF outcome = "reply" THEN [cx EXCEPT !.status = StatusOK, !.body = "reply"]
    ELSE cx

\* The frames of the stack: a call of c.Next(), and a call of the handler h
\* made by c.Next() (by "next") or by another handler (by "call"). pc is
\* "begin" before the handler has run, "deferred" while a function it has
\* deferred is to run when it returns, else "ret".
NextFrame == [kind |-> "next"]
HandlerFrame(h, by) == [kind |-> "handler", h |-> h, pc |-> "begin", by |-> by]

top == stack[Len(stack)]
below == SubSeq(stack, 1, Len(stack) - 1)

\* The handler on top of the stack is of this kind and has not begun
begins(kind) ==
    /\ mpc = "serving"
    /\ panicked = "none"
    /\ stack # <<>>
    /\ top.kind = "handler"
    /\ top.pc = "begin"
    /\ top.h.kind = kind

\* The handler on top of the stack calls c.Next() with the context cx and
\* has pc when that returns
callNext(cx, pc) ==
    /\ ctx' = [cx EXCEPT !.index = @ + 1]
    /\ stack' = below \o <<[top EXCEPT !.pc = pc], NextFrame>>

\* The handler on top of the stack goes on to its return with the context cx
goOn(cx) ==
    /\ ctx' = cx
    /\ stack' = below \o <<[top EXCEPT !.pc = "ret"]>>

(***************************************************************************)
(* The example inputs                                                      *)
(***************************************************************************)
MaxSegs == 2
MaxBindings == 2
MaxMethods == 2

\* The request message of the examples: id is a scalar, m a map, l a
\* repeated field, s a message with a scalar id; no field is called z.
SubMessage == (<<"i", "d">> :> Scalar)
RequestMessage ==
    (<<"i", "d">> :> Scalar) @@ (<<"m">> :> MapField) @@ (<<"l">> :> ListField)
    @@ (<<"s">> :> MessageField(SubMessage))

ExampleMethod ==
    [name |-> <<"G", "e", "t">>, goName |-> <<"G", "e", "t">>, streaming |-> "unary",
     rule |-> NoRule, input |-> RequestMessage]

\* The pieces the example paths are made of.
Pieces ==
    { <<"v">>,
      <<"{", "i", "d", "}">>,
      <<"{", "z", "}">>,
      <<"{", "m", "}">>,
      <<"{", "l", "}">>,
      <<"{", "s", ".", "i", "d", "}">>,
      <<"{", "i", "d", "}", ":", "v">>,
      <<"{", "i", "d", "=", "*", "}">>,
      <<":", "i", "d">>,
      <<":">>,
      <<>> }

PathsOf(n) == {<<"/">> \o Join(ps, "/") : ps \in [1..n -> Pieces]}
Paths == UNION {PathsOf(n) : n \in 1..MaxSegs}

Bodies == {<<>>, <<"*">>, <<"i", "d">>}

SingleRules ==
    [pattern : {"get", "post", "delete", "custom"}, path : Paths, kind : {"HEAD"},
     body : Bodies, responseBody : {<<>>, <<"i", "d">>}, bindings : {<<>>}]

Rule(pattern, path, body) ==
    [pattern |-> pattern, path |-> path, kind |-> "", body |-> body,
     responseBody |-> <<>>, bindings |-> <<>>]

GetRule == Rule("get", <<"/", "v", "/", "{", "i", "d", "}">>, <<>>)
PostRule == Rule("post", <<"/", "v">>, <<"*">>)
PutRule == Rule("put", <<"/", "v", "/", "{", "i", "d", "}">>, <<"*">>)
\* a placeholder that names no field of the request message
LostRule == Rule("get", <<"/", "v", "/", "{", "z", "}">>, <<>>)

\* n additional bindings, by turns PostRule and PutRule
BindingsOf(n) == [i \in 1..n |-> IF i % 2 = 1 THEN PostRule ELSE PutRule]

RuleChoices ==
    {NoRule, LostRule}
    \cup {[GetRule EXCEPT !.bindings = BindingsOf(n)] : n \in 0..MaxBindings}

MethodNames ==
    <<<<"G", "e", "t">>, <<"P", "u", "t">>, <<"D", "e", "l">>, <<"A", "d", "d">>>>

\* The services of n methods, the i-th method called MethodNames[i].
ServicesOf(fullName, n) ==
    {[goName |-> fullName, fullName |-> fullName,
      methods |-> [i \in 1..n |->
                     [name |-> MethodNames[i], goName |-> MethodNames[i],
                      streaming |-> c[i].streaming, rule |-> c[i].rule,
                      input |-> RequestMessage]]] :
        c \in [1..n -> [streaming : {"unary", "client", "server"}, rule : RuleChoices]]}

Services(fullName) == UNION {ServicesOf(fullName, n) : n \in 0..MaxMethods}

\* A first service with nothing to route: a streaming method that has a rule.
StreamOnly ==
    [goName |-> <<"p", ".", "A">>, fullName |-> <<"p", ".", "A">>,
     methods |-> <<[ExampleMethod EXCEPT !.streaming = "server", !.rule = GetRule]>>]

Files ==
    {[services |-> <<>>]}
    \cup {[services |-> <<s>>] : s \in Services(<<"p", ".", "S">>)}
    \cup {[services |-> <<StreamOnly, s>>] : s \in Services(<<"p", ".", "S">>)}

(***************************************************************************)
(* The specifications                                                      *)
(***************************************************************************)
RuleIdle == ruleIn = NoRule /\ ruleOut = NoResult

CallIdle == callIn = NoCall /\ callOut = NoResult

UnitIdle == handler = NoCall /\ breaker = NoCall

GenIdle ==
    /\ file = NoFile
    /\ omitempty = FALSE
    /\ gpc = "idle"
    /\ svcIdx = 1
    /\ methIdx = 1
    /\ bindIdx = 1
    /\ sdMethods = <<>>
    /\ methodSets = [n \in {} |-> 0]
    /\ stderr = <<>>
    /\ generated = NoFile

MwIdle ==
    /\ sd = NoFile
    /\ mpc = "idle"
    /\ mg = NoGroup
    /\ given = <<>>
    /\ reg = NoRequest
    /\ router = <<>>
    /\ req = NoRequest
    /\ ctx = NoContext
    /\ stack = <<>>
    /\ log = <<>>
    /\ panicked = "none"

\* One rule through buildHTTPRule.
InitRule ==
    /\ ruleIn \in SingleRules
    /\ ruleOut = NoResult
    /\ GenIdle
    /\ MwIdle
    /\ CallIdle
    /\ UnitIdle

\* buildHTTPRule on the rule, for some order of the range over the params
BuildRule ==
    /\ ruleIn # NoRule
    /\ ruleOut = NoResult
    /\ \E order \in ParamOrders(ruleIn.path) :
          ruleOut' = buildHTTPRule(ExampleMethod, ruleIn, 0, order)
    /\ UNCHANGED <<ruleIn, genVars, mwVars, callVars, unitVars>>

NextRule == BuildRule

SpecRule == InitRule /\ [][NextRule]_vars

\* One file through GenerateFile.
InitGen ==
    /\ RuleIdle
    /\ MwIdle
    /\ CallIdle
    /\ UnitIdle
    /\ file \in Files
    /\ omitempty \in BOOLEAN
    /\ gpc = "start"
    /\ svcIdx = 1
    /\ methIdx = 1
    /\ bindIdx = 1
    /\ sdMethods = <<>>
    /\ methodSets = [n \in {MethodNames[i] : i \in DOMAIN MethodNames} |-> 0]
    /\ stderr = <<>>
    /\ generated = NoFile

NextGen ==
    \/ GenerateFile
    \/ GenSkipStreaming
    \/ GenBinding
    \/ GenPrimary
    \/ GenDefault
    \/ GenOmit
    \/ GenExecute
    \/ GenReturn

SpecGen == InitGen /\ [][NextGen]_vars

\* One file through GenerateFile later in a run of the plugin: main calls
\* GenerateFile for each file of the request, and methodSets is a variable
\* of the package that none of the calls resets. The files generated before
\* had earlier routes for each of the method names.
MaxEarlier == 2

InitRun ==
    /\ RuleIdle
    /\ MwIdle
    /\ CallIdle
    /\ UnitIdle
    /\ file \in Files
    /\ omitempty \in BOOLEAN
    /\ gpc = "start"
    /\ svcIdx = 1
    /\ methIdx = 1
    /\ bindIdx = 1
    /\ sdMethods = <<>>
    /\ \E earlier \in 0..MaxEarlier :
          methodSets = [n \in {MethodNames[i] : i \in DOMAIN MethodNames} |-> earlier]
    /\ stderr = <<>>
    /\ generated = NoFile

SpecRun == InitRun /\ [][NextGen]_vars

(***************************************************************************)
(* The generated code at run time: one service is registered, with or      *)
(* without middleware, and one request is served.                          *)
(***************************************************************************)
MaxMws == 2
MaxGroup == 3

\* The service p.S: Get is GET /v with the additional binding POST /v, and
\* Del is DELETE /w.
PathV == <<"/", "v">>
PathW == <<"/", "w">>
ServiceS ==
    [goName |-> <<"S">>, fullName |-> <<"p", ".", "S">>,
     methods |-> <<[ExampleMethod EXCEPT
                      !.rule = [Rule("get", PathV, <<>>) EXCEPT
                                  !.bindings = <<Rule("post", PathV, <<"*">>)>>]],
                   [ExampleMethod EXCEPT
                      !.name = <<"D", "e", "l">>, !.goName = <<"D", "e", "l">>,
                      !.rule = Rule("delete", PathW, <<>>)]>>]

\* What genService makes of ServiceS
DescS ==
    execute(ServiceS,
            <<buildHTTPRule(ServiceS.methods[1], ServiceS.methods[1].rule.bindings[1],
                            0, <<>>).md,
              buildHTTPRule(ServiceS.methods[1], ServiceS.methods[1].rule, 1, <<>>).md,
              buildHTTPRule(ServiceS.methods[2], ServiceS.methods[2].rule, 0, <<>>).md>>)

Marks == {Mark("a"), Mark("b")}
MarkLists == UNION {[1..n -> Marks] : n \in 0..MaxMws}

Selectors == {PathSelector(PathV), PathSelector(<<"/", "x">>), MethodSelector("GET")}

\* middleware.AuthConfig{Validator: ...}
ValidatorOnly == [Skipper |-> "nil", Validator |-> "valid", ErrorHandler |-> "nil"]

AuthConfigs ==
    {DefaultAuthConfig, ValidatorOnly,
     [DefaultAuthConfig EXCEPT !.Validator = "valid"],
     [DefaultAuthConfig EXCEPT !.Skipper = "all"]}

RecoveryConfigs ==
    [Skipper : {"nil", "all"}, RecoveryHandler : {"nil", "defaultRecoveryHandler"},
     EnableStackTrace : BOOLEAN, EnableDetailedError : BOOLEAN]

\* The middlewares given to Register<Service>HTTPServerWithMiddleware
MwLists ==
    MarkLists
    \cup {<<ConditionalMiddleware(sel, Mark("a"))>> : sel \in Selectors}
    \cup {<<ConditionalMiddleware(sel, Mark("a")), Mark("b")>> : sel \in Selectors}
    \cup {<<BearerAuthWithConfig(cfg)>> : cfg \in AuthConfigs}
    \cup {<<Mark("a"), BearerAuthWithConfig(cfg), Mark("b")>> : cfg \in AuthConfigs}
    \cup {<<RecoveryWithConfig(cfg)>> : cfg \in RecoveryConfigs}
    \cup {<<Mark("a"), RecoveryWithConfig(cfg), Mark("b")>> : cfg \in RecoveryConfigs}
    \cup {<<Recovery, BearerAuthWithConfig(ValidatorOnly)>>}

\* The maps given to Register<Service>HTTPServerWithOperationMiddleware: the
\* third key is the operation name of no method.
OperationKeys ==
    {<<"/", "p", ".", "S", "/", "G", "e", "t">>, <<"/", "p", ".", "S", "/", "D", "e", "l">>,
     <<"/", "p", ".", "S", "/", "P", "u", "t">>}
OperationMaps ==
    UNION {[keys -> {<<>>, <<Mark("a")>>, <<Mark("a"), Mark("b")>>}] :
              keys \in SUBSET OperationKeys}

Authorizations == {<<>>, <<"t">>, Bearer, Bearer \o ValidToken, Bearer \o <<"u">>}

\* The requests that the route rt serves
Requests(rt) ==
    {[Method |-> rt.method, Path |-> rt.path, Authorization |-> a, outcome |-> "reply",
      Origin |-> <<>>, RequestHeaders |-> ""] :
        a \in Authorizations}
    \cup {[Method |-> rt.method, Path |-> rt.path, Authorization |-> <<>>, outcome |-> o,
           Origin |-> <<>>, RequestHeaders |-> ""] :
            o \in {"binderr", "error", "panic"}}

\* NewMiddlewareGroup(middleware...)
NewMiddlewareGroup ==
    /\ mpc = "setup"
    /\ mg = NoGroup
    /\ \E middleware \in MarkLists :
          /\ mg' = [middleware |-> middleware]
          /\ given' = <<middleware>>
    /\ UNCHANGED <<sd, reg, router, mpc, serveVars, ruleVars, genVars, callVars, unitVars>>

\* An Add that puts the middleware in front of the group's
AddInFront ==
    /\ mpc = "setup"
    /\ mg # NoGroup
    /\ \E middleware \in MarkLists \ {<<>>} :
          /\ Len(mg.middleware) + Len(middleware) <= MaxGroup
          /\ mg' = [mg EXCEPT !.middleware = middleware \o @]
          /\ given' = Append(given, middleware)
    /\ UNCHANGED <<sd, reg, router, mpc, serveVars, ruleVars, genVars, callVars, unitVars>>

\* mg.Add(middleware...)
Add ==
    /\ mpc = "setup"
    /\ mg # NoGroup
    /\ \E middleware \in MarkLists \ {<<>>} :
          /\ Len(mg.middleware) + Len(middleware) <= MaxGroup
          /\ mg' = [mg EXCEPT !.middleware = @ \o middleware]
          /\ given' = Append(given, middleware)
    /\ UNCHANGED <<sd, reg, router, mpc, serveVars, ruleVars, genVars, callVars, unitVars>>

\* mg.Apply()
Apply(group) == group.middleware

\* r.<Method>("<Path>", handlers...)
route(md, handlers) == [method |-> md.Method, path |-> md.Path, handlers |-> handlers]

\* A Register function has been called
registered(by, middlewares) ==
    /\ mpc = "setup"
    /\ reg' = [by |-> by, middlewares |-> middlewares]
    /\ mpc' = "ready"
    /\ UNCHANGED <<sd, mg, given, serveVars, ruleVars, genVars, callVars, unitVars>>

\* Register<Service>HTTPServer(r, srv)
RegisterHTTPServer ==
    /\ mg = NoGroup
    /\ router' = [i \in DOMAIN sd.Methods |->
                     route(sd.Methods[i], <<HTTPHandler(sd, sd.Methods[i])>>)]
    /\ registered("RegisterHTTPServer", <<>>)

\* Register<Service>HTTPServerWithMiddleware(r, srv, middlewares...)
registerWithMiddleware(middlewares) ==
    /\ router' = [i \in DOMAIN sd.Methods |->
                     route(sd.Methods[i],
                           Append(middlewares, HTTPHandler(sd, sd.Methods[i])))]
    /\ registered("RegisterHTTPServerWithMiddleware", middlewares)

\* It is called with middlewares of the tests, or with a group's
RegisterHTTPServerWithMiddleware ==
    \E middlewares \in (IF mg = NoGroup THEN MwLists ELSE {Apply(mg)}) :
        registerWithMiddleware(middlewares)

\* A route that has the handler alone whatever the map holds
operationChainAlone(middlewares, md) == <<HTTPHandler(sd, md)>>

\* One route of Register<Service>HTTPServerWithOperationMiddleware
operationChain(middlewares, md) ==
    IF operationName(sd.ServiceName, md) \in DOMAIN middlewares
    THEN Append(middlewares[operationName(sd.ServiceName, md)], HTTPHandler(sd, md))
    ELSE <<HTTPHandler(sd, md)>>

\* Register<Service>HTTPServerWithOperationMiddleware(r, srv, middlewares)
RegisterHTTPServerWithOperationMiddleware ==
    /\ mg = NoGroup
    /\ \E middlewares \in OperationMaps :
          /\ router' = [i \in DOMAIN sd.Methods |->
                           route(sd.Methods[i], operationChain(middlewares, sd.Methods[i]))]
          /\ registered("RegisterHTTPServerWithOperationMiddleware", middlewares)

\* The context that ServeHTTP hands to the handlers: nothing is written yet
NewContext(handlers, status) ==
    [handlers |-> handlers, index |-> 1, aborted |-> FALSE, status |-> status,
     Keys |-> <<>>, Header |-> {}, Errors |-> <<>>, body |-> "none"]

\* r.ServeHTTP(w, req) for a request that a route serves: the context is
\* reset, takes the route's handlers and c.Next() is called.
ServeHTTP ==
    /\ mpc = "ready"
    /\ mpc' = "serving"
    /\ \E k \in DOMAIN router :
          /\ req' \in Requests(router[k])
          /\ ctx' = NewContext(router[k].handlers, StatusOK)
    /\ stack' = <<NextFrame>>
    /\ UNCHANGED <<log, panicked, setupVars, ruleVars, genVars, callVars, unitVars>>

\* c.Next()'s loop: the handler at c.index is called
NextCall ==
    /\ mpc = "serving"
    /\ panicked = "none"
    /\ stack # <<>>
    /\ top.kind = "next"
    /\ ctx.index <= Len(ctx.handlers)
    /\ ~ctx.aborted
    /\ stack' = Append(stack, HandlerFrame(ctx.handlers[ctx.index], "next"))
    /\ UNCHANGED <<req, ctx, log, panicked, mpc, setupVars, ruleVars, genVars, callVars, unitVars>>

\* c.Next()'s loop ends: after the last handler, or after c.Abort()
NextReturn ==
    /\ mpc = "serving"
    /\ panicked = "none"
    /\ stack # <<>>
    /\ top.kind = "next"
    /\ (ctx.index > Len(ctx.handlers) \/ ctx.aborted)
    /\ stack' = below
    /\ mpc' = IF below = <<>> THEN "done" ELSE mpc
    /\ UNCHANGED <<req, ctx, log, panicked, setupVars, ruleVars, genVars, callVars, unitVars>>

\* A handler returns; c.Next()'s loop then moves to the next handler
Return ==
    /\ mpc = "serving"
    /\ panicked = "none"
    /\ stack # <<>>
    /\ top.kind = "handler"
    /\ top.pc \in {"ret", "deferred"}
    /\ stack' = below
    /\ ctx' = IF top.by = "next" THEN [ctx EXCEPT !.index = @ + 1] ELSE ctx
    /\ UNCHANGED <<req, log, panicked, mpc, setupVars, ruleVars, genVars, callVars, unitVars>>

\* func(c *gin.Context) { c.Header(id, "applied"); c.Next() }
RunMark ==
    /\ begins("mark")
    /\ log' = Append(log, <<"mark", top.h.id>>)
    /\ callNext([ctx EXCEPT !.Header = @ \cup {top.h.id}], "ret")
    /\ UNCHANGED <<req, panicked, mpc, setupVars, ruleVars, genVars, callVars, unitVars>>

\* The generated handler: the operation is set, the request is bound, the
\* service method is called and its reply written; req.outcome is
\* "binderr" when the binding fails, else what the service method does:
\* "reply", "error" or "panic".
RunHandler ==
    /\ begins("handler")
    /\ log' = log \o <<<<"handler", top.h.operation>>>>
                  \o (IF req.outcome = "binderr" THEN <<>> ELSE <<<<"srv", top.h.name>>>>)
    /\ panicked' = IF req.outcome = "panic" THEN "service" ELSE "none"
    /\ goOn(handled([ctx EXCEPT !.Keys = Set(@, "operation", top.h.operation)],
                     req.outcome))
    /\ UNCHANGED <<req, mpc, setupVars, ruleVars, genVars, callVars, unitVars>>

\* ConditionalMiddleware.Apply's handler
RunConditional ==
    /\ begins("conditional")
    /\ IF Match(top.h.selector, req)
       THEN /\ stack' = below \o <<[top EXCEPT !.pc = "ret"],
                                   HandlerFrame(top.h.middleware, "call")>>
            /\ ctx' = ctx
       ELSE callNext(ctx, "ret")
    /\ UNCHANGED <<req, log, panicked, mpc, setupVars, ruleVars, genVars, callVars, unitVars>>

\* BearerAuthWithConfig's handler; a call of a nil config.ErrorHandler panics
RunBearer ==
    /\ begins("bearer")
    /\ \E decision \in {bearerDecision(top.h.config, req.Authorization)} :
          CASE decision = "next" -> callNext(ctx, "ret") /\ panicked' = panicked
            [] decision = "pass" ->
                  /\ callNext([ctx EXCEPT !.Keys = Set(@, "token",
                                                 TrimPrefix(req.Authorization, Bearer))],
                              "ret")
                  /\ panicked' = panicked
            [] OTHER ->
                  IF top.h.config.ErrorHandler = "nil"
                  THEN goOn(ctx) /\ panicked' = "nil ErrorHandler"
                  ELSE /\ goOn(errorHandled(ctx, top.h.config.ErrorHandler))
                       /\ panicked' = panicked
    /\ UNCHANGED <<req, log, mpc, setupVars, ruleVars, genVars, callVars, unitVars>>

\* RecoveryWithConfig's handler: c.Next(), under the deferred function
\* unless it is skipped
RunRecovery ==
    /\ begins("recovery")
    /\ callNext(ctx, IF skips(top.h.config) THEN "ret" ELSE "deferred")
    /\ UNCHANGED <<req, log, panicked, mpc, setupVars, ruleVars, genVars, callVars, unitVars>>

\* The handler on top of the stack has deferred RecoveryWithConfig's function
recovers == top.kind = "handler" /\ top.pc = "deferred"

\* A panic leaves a function that does not recover it
Unwind ==
    /\ mpc = "serving"
    /\ panicked # "none"
    /\ stack # <<>>
    /\ ~recovers
    /\ stack' = below
    /\ UNCHANGED <<req, ctx, log, panicked, mpc, setupVars, ruleVars, genVars, callVars, unitVars>>

\* RecoveryWithConfig's deferred function recovers the panic: it answers
\* itself, or calls config.RecoveryHandler, which panics when it is nil, and
\* then aborts.
Recover ==
    /\ mpc = "serving"
    /\ panicked # "none"
    /\ stack # <<>>
    /\ recovers
    /\ top.h.kind = "recovery"
    /\ stack' = below
    /\ IF ~top.h.config.EnableDetailedError /\ top.h.config.RecoveryHandler = "nil"
       THEN panicked' = "nil RecoveryHandler" /\ ctx' = ctx
       ELSE /\ panicked' = "none"
            /\ ctx' = [abortWith(ctx, StatusInternalServerError) EXCEPT
                         !.index = IF top.by = "next" THEN @ + 1 ELSE @]
    /\ UNCHANGED <<req, log, mpc, setupVars, ruleVars, genVars, callVars, unitVars>>

\* The panic leaves ServeHTTP: the request gets no answer
Crash ==
    /\ mpc = "serving"
    /\ panicked # "none"
    /\ stack = <<>>
    /\ mpc' = "crashed"
    /\ UNCHANGED <<serveVars, setupVars, ruleVars, genVars, callVars, unitVars>>

InitMw ==
    /\ RuleIdle
    /\ GenIdle
    /\ CallIdle
    /\ UnitIdle
    /\ sd = DescS
    /\ mpc = "setup"
    /\ mg = NoGroup
    /\ given = <<>>
    /\ reg = NoRequest
    /\ router = <<>>
    /\ req = NoRequest
    /\ ctx = NoContext
    /\ stack = <<>>
    /\ log = <<>>
    /\ panicked = "none"

NextMw ==
    \/ NewMiddlewareGroup
    \/ Add
    \/ RegisterHTTPServer
    \/ RegisterHTTPServerWithMiddleware
    \/ RegisterHTTPServerWithOperationMiddleware
    \/ ServeHTTP
    \/ NextCall
    \/ NextReturn
    \/ Return
    \/ RunMark
    \/ RunHandler
    \/ RunConditional
    \/ RunBearer
    \/ RunRecovery
    \/ Unwind
    \/ Recover
    \/ Crash

SpecMw == InitMw /\ [][NextMw]_vars

(***************************************************************************)
(* The other middlewares of the package in front of the generated          *)
(* handlers of a service that also has an OPTIONS route.                   *)
(***************************************************************************)
\* The service p.S with a third method: Opt is OPTIONS /v.
ServiceT ==
    [ServiceS EXCEPT
       !.methods = Append(@, [ExampleMethod EXCEPT
                                !.name = <<"O", "p", "t">>, !.goName = <<"O", "p", "t">>,
                                !.rule = [Rule("custom", PathV, <<>>) EXCEPT
                                            !.kind = "OPTIONS"]])]

\* What genService makes of ServiceT
DescT ==
    execute(ServiceT,
            Append(DescS.Methods,
                   buildHTTPRule(ServiceT.methods[3], ServiceT.methods[3].rule, 0, <<>>).md))

Origins == {<<"a">>, <<"a", "x", "b">>}

CORSConfigs ==
    {DefaultCORSConfig,
     [DefaultCORSConfig EXCEPT !.Skipper = "all"],
     [DefaultCORSConfig EXCEPT !.AllowOrigins = <<<<"a">>>>],
     [DefaultCORSConfig EXCEPT !.AllowOrigins = <<<<"a", "*", "b">>>>,
                               !.AllowWildcard = TRUE],
     [DefaultCORSConfig EXCEPT !.AllowOrigins = <<>>, !.AllowAllOrigins = TRUE,
                               !.AllowCredentials = TRUE],
     [DefaultCORSConfig EXCEPT !.AllowMethods = <<>>, !.AllowHeaders = <<>>,
                               !.ExposeHeaders = <<"X">>, !.MaxAge = 0]}

\* middleware.LoggingConfig{LogRequest: true} and the like
LoggingConfigs ==
    {DefaultLoggingConfig, LoggingConfig,
     [LoggingConfig EXCEPT !.LogRequest = TRUE],
     [LoggingConfig EXCEPT !.LogRequest = TRUE, !.LogResponse = TRUE],
     [LoggingConfig EXCEPT !.Skipper = "all"],
     [DefaultLoggingConfig EXCEPT !.Output = "nil"],
     [DefaultLoggingConfig EXCEPT !.LogResponse = TRUE, !.LogOperation = FALSE]}

\* The AuthConfigs of the examples and those with an ErrorHandler of the
\* caller's
CustomAuthConfigs ==
    AuthConfigs
    \cup {[DefaultAuthConfig EXCEPT !.ErrorHandler = "respond"],
          [DefaultAuthConfig EXCEPT !.ErrorHandler = "respond", !.Validator = "valid"]}

\* The authentication middlewares
AuthMiddlewares ==
    UNION {{BearerAuthWithConfig(cfg), JWTAuthWithConfig(cfg),
            APIKeyAuthWithConfig(cfg, "Authorization"),
            APIKeyAuthWithConfig(cfg, "X-API-Key")} : cfg \in CustomAuthConfigs}

\* The middlewares a group is made of
GroupLists ==
    MarkLists \cup {<<BearerAuth, Mark("a")>>, <<Mark("a"), BearerAuth, Mark("b")>>}

\* The middlewares given to Register<Service>HTTPServerWithMiddleware here
ExampleLists ==
    {<<CORSWithConfig(cfg)>> : cfg \in CORSConfigs}
    \cup {<<LoggingWithConfig(cfg)>> : cfg \in LoggingConfigs}
    \cup {<<OperationMiddleware(op, Mark("a"))>> : op \in OperationKeys}
    \cup {<<OperationMiddleware(op, Mark("a")), Mark("b")>> : op \in OperationKeys}
    \cup {<<Wrap([middleware |-> l])>> : l \in GroupLists}
    \cup {Apply([middleware |-> l]) : l \in GroupLists}
    \cup {<<RecoveryFunc("f")>>, <<Mark("a"), RecoveryFunc("f"), Mark("b")>>}
    \cup {<<mw>> : mw \in AuthMiddlewares}

RegisterWithExampleMiddleware ==
    /\ mg = NoGroup
    /\ \E middlewares \in ExampleLists : registerWithMiddleware(middlewares)

\* The routes of the router that serve the method and the path
routed(method, path) ==
    {j \in DOMAIN router : router[j].method = method /\ router[j].path = path}

\* r.ServeHTTP(w, req) for an OPTIONS request with an Origin header to the
\* path of a route: it is served by the OPTIONS route of that path, and
\* answered 404 with no handler run when there is none.
Preflight ==
    /\ mpc = "ready"
    /\ mpc' = "serving"
    /\ \E k \in DOMAIN router, origin \in Origins, o \in {"reply", "error"},
          hs \in {"", "X-Token"} :
          /\ req' = [Method |-> "OPTIONS", Path |-> router[k].path,
                     Authorization |-> <<>>, outcome |-> o, Origin |-> origin,
                     RequestHeaders |-> hs]
          /\ \E js \in {routed("OPTIONS", router[k].path)} :
                ctx' = IF js = {} THEN NewContext(<<>>, StatusNotFound)
                       ELSE NewContext(router[CHOOSE j \in js : TRUE].handlers, StatusOK)
    /\ stack' = <<NextFrame>>
    /\ UNCHANGED <<log, panicked, setupVars, ruleVars, genVars, callVars, unitVars>>

\* CORSWithConfig's handler: a preflight request gets its status and the
\* handler returns; any other request goes on
RunCORS ==
    /\ begins("cors")
    /\ IF skips(top.h.config) THEN callNext(ctx, "ret")
       ELSE IF req.Method = "OPTIONS"
       THEN goOn([ctx EXCEPT !.Header = @ \cup corsHeaders(top.h.config, req)
                                          \cup preflightHeaders(top.h.config, req),
                             !.status = StatusNoContent])
       ELSE callNext([ctx EXCEPT !.Header = @ \cup corsHeaders(top.h.config, req)], "ret")
    /\ UNCHANGED <<req, log, panicked, mpc, setupVars, ruleVars, genVars, callVars, unitVars>>

\* LoggingWithConfig's handler up to its c.Next()
RunLogging ==
    /\ begins("logging")
    /\ callNext(ctx, IF skips(top.h.config) THEN "ret" ELSE "after")
    /\ UNCHANGED <<req, log, panicked, mpc, setupVars, ruleVars, genVars, callVars, unitVars>>

\* LoggingWithConfig's handler after its c.Next(): the entry is written to
\* config.Output; fmt.Fprintln on a nil io.Writer panics
LoggingWrite ==
    /\ mpc = "serving"
    /\ panicked = "none"
    /\ stack # <<>>
    /\ top.kind = "handler"
    /\ top.pc = "after"
    /\ IF top.h.config.Output = "nil"
       THEN panicked' = "nil Output" /\ log' = log
       ELSE /\ panicked' = panicked
            /\ log' = Append(log, <<"log", top.h.config.Output,
                                    LogEntry(top.h.config, req, ctx)>>)
    /\ goOn(ctx)
    /\ UNCHANGED <<req, mpc, setupVars, ruleVars, genVars, callVars, unitVars>>

\* OperationMiddleware.Apply's handler
RunOperation ==
    /\ begins("operation")
    /\ IF "operation" \in DOMAIN ctx.Keys /\ ctx.Keys["operation"] = top.h.operation
       THEN /\ stack' = below \o <<[top EXCEPT !.pc = "ret"],
                                   HandlerFrame(top.h.middleware, "call")>>
            /\ ctx' = ctx
       ELSE callNext(ctx, "ret")
    /\ UNCHANGED <<req, log, panicked, mpc, setupVars, ruleVars, genVars, callVars, unitVars>>

\* MiddlewareGroup.Wrap's handler: one turn of its loop over the middlewares
\* left in top.h.middleware
RunWrap ==
    /\ begins("wrap")
    /\ IF top.h.middleware = <<>> \/ ctx.aborted
       THEN stack' = below \o <<[top EXCEPT !.pc = "ret"]>>
       ELSE stack' = below \o <<[top EXCEPT !.h.middleware = Tail(@)],
                                HandlerFrame(Head(top.h.middleware), "call")>>
    /\ UNCHANGED <<req, ctx, log, panicked, mpc, setupVars, ruleVars, genVars, callVars, unitVars>>

\* gin.Recovery()'s handler: c.Next() under its deferred function
RunGinRecovery ==
    /\ begins("ginRecovery")
    /\ callNext(ctx, "deferred")
    /\ UNCHANGED <<req, log, panicked, mpc, setupVars, ruleVars, genVars, callVars, unitVars>>

\* gin.Recovery()'s deferred function recovers the panic:
\* c.AbortWithStatus(500)
GinRecover ==
    /\ mpc = "serving"
    /\ panicked # "none"
    /\ stack # <<>>
    /\ recovers
    /\ top.h.kind = "ginRecovery"
    /\ stack' = below
    /\ panicked' = "none"
    /\ ctx' = [ctx EXCEPT !.status = StatusInternalServerError, !.aborted = TRUE,
                          !.index = IF top.by = "next" THEN @ + 1 ELSE @]
    /\ UNCHANGED <<req, log, mpc, setupVars, ruleVars, genVars, callVars, unitVars>>

\* The handler of an authentication middleware after its decision: it
\* calls c.Next(), stores the credential under key and calls c.Next(), or
\* calls config.ErrorHandler and returns
authenticated(decision, key, credential) ==
    CASE decision = "next" -> callNext(ctx, "ret") /\ panicked' = panicked
      [] decision = "pass" ->
            /\ callNext([ctx EXCEPT !.Keys = Set(@, key, credential)], "ret")
            /\ panicked' = panicked
      [] OTHER ->
            IF top.h.config.ErrorHandler = "nil"
            THEN goOn(ctx) /\ panicked' = "nil ErrorHandler"
            ELSE /\ goOn(errorHandled(ctx, top.h.config.ErrorHandler))
                 /\ panicked' = panicked

\* APIKeyAuthWithConfig's handler
RunAPIKey ==
    /\ begins("apikey")
    /\ \E apiKey \in {GetHeader(req, top.h.headerName)} :
          authenticated(apiKeyDecision(top.h.config, apiKey), "api_key", apiKey)
    /\ UNCHANGED <<req, log, mpc, setupVars, ruleVars, genVars, callVars, unitVars>>

\* JWTAuthWithConfig's handler
RunJWT ==
    /\ begins("jwt")
    /\ \E auth \in {GetHeader(req, "Authorization")} :
          authenticated(jwtDecision(top.h.config, auth), "jwt_token", jwtToken(auth))
    /\ UNCHANGED <<req, log, mpc, setupVars, ruleVars, genVars, callVars, unitVars>>

InitMw2 ==
    /\ RuleIdle
    /\ GenIdle
    /\ CallIdle
    /\ UnitIdle
    /\ sd = DescT
    /\ mpc = "setup"
    /\ mg = NoGroup
    /\ given = <<>>
    /\ reg = NoRequest
    /\ router = <<>>
    /\ req = NoRequest
    /\ ctx = NoContext
    /\ stack = <<>>
    /\ log = <<>>
    /\ panicked = "none"

NextMw2 ==
    \/ RegisterWithExampleMiddleware
    \/ ServeHTTP
    \/ Preflight
    \/ NextCall
    \/ NextReturn
    \/ Return
    \/ RunMark
    \/ RunHandler
    \/ RunBearer
    \/ RunAPIKey
    \/ RunJWT
    \/ RunCORS
    \/ RunLogging
    \/ LoggingWrite
    \/ RunOperation
    \/ RunWrap
    \/ RunGinRecovery
    \/ GinRecover
    \/ Unwind
    \/ Crash

SpecMw2 == InitMw2 /\ [][NextMw2]_vars

(***************************************************************************)
(* The binding package and the client package: one call of a function      *)
(***************************************************************************)
\* strings.Contains(s, substr)
Contains(s, substr) ==
    \E i \in 0..(Len(s) - Len(substr)) : SubSeq(s, i + 1, i + Len(substr)) = substr

\* strings.ReplaceAll(s, old, new) for an old that is not empty
RECURSIVE ReplaceAll(_, _, _)
ReplaceAll(s, old, new) ==
    IF s = <<>> THEN <<>>
    ELSE IF HasPrefix(s, old)
    THEN new \o ReplaceAll(SubSeq(s, Len(old) + 1, Len(s)), old, new)
    ELSE <<Head(s)>> \o ReplaceAll(Tail(s), old, new)

\* strings.ToUpper(s)
ToUpper(s) == [i \in DOMAIN s |-> Upper(s[i])]

\* The names that BindByContentType looks for in the Content-Type header
ApplicationXML ==
    <<"a", "p", "p", "l", "i", "c", "a", "t", "i", "o", "n", "/", "x", "m",
      "l">>
TextXML ==
    <<"t", "e", "x", "t", "/", "x", "m", "l">>
ApplicationYAML ==
    <<"a", "p", "p", "l", "i", "c", "a", "t", "i", "o", "n", "/", "x", "-",
      "y", "a", "m", "l">>
TextYAML ==
    <<"t", "e", "x", "t", "/", "y", "a", "m", "l">>
ApplicationTOML ==
    <<"a", "p", "p", "l", "i", "c", "a", "t", "i", "o", "n", "/", "t", "o",
      "m", "l">>
ApplicationProtoBuf ==
    <<"a", "p", "p", "l", "i", "c", "a", "t", "i", "o", "n", "/", "x", "-",
      "p", "r", "o", "t", "o", "b", "u", "f">>
ApplicationMsgPack ==
    <<"a", "p", "p", "l", "i", "c", "a", "t", "i", "o", "n", "/", "x", "-",
      "m", "s", "g", "p", "a", "c", "k">>
MultipartForm ==
    <<"m", "u", "l", "t", "i", "p", "a", "r", "t", "/", "f", "o", "r", "m",
      "-", "d", "a", "t", "a">>
FormURLEncoded ==
    <<"a", "p", "p", "l", "i", "c", "a", "t", "i", "o", "n", "/", "x", "-",
      "w", "w", "w", "-", "f", "o", "r", "m", "-", "u", "r", "l", "e", "n",
      "c", "o", "d", "e", "d">>

\* A switch that takes the header for one of the names only when it is equal
\* to it
binderOfEqual(contentType) ==
    IF contentType \in {ApplicationXML, TextXML} THEN "ctx.BindXML"
    ELSE IF contentType \in {ApplicationYAML, TextYAML} THEN "ctx.BindYAML"
    ELSE IF contentType = ApplicationTOML THEN "ctx.BindTOML"
    ELSE IF contentType = ApplicationProtoBuf THEN "ginbinding.ProtoBuf"
    ELSE IF contentType = ApplicationMsgPack THEN "ginbinding.MsgPack"
    ELSE IF contentType = MultipartForm THEN "ginbinding.FormMultipart"
    ELSE IF contentType = FormURLEncoded THEN "ctx.Bind"
    ELSE "ctx.BindJSON"

\* BindByContentType's switch: the binder it calls for the header
binderOf(contentType) ==
    IF Contains(contentType, ApplicationXML) \/ Contains(contentType, TextXML)
    THEN "ctx.BindXML"
    ELSE IF Contains(contentType, ApplicationYAML) \/ Contains(contentType, TextYAML)
    THEN "ctx.BindYAML"
    ELSE IF Contains(contentType, ApplicationTOML) THEN "ctx.BindTOML"
    ELSE IF Contains(contentType, ApplicationProtoBuf) THEN "ginbinding.ProtoBuf"
    ELSE IF Contains(contentType, ApplicationMsgPack) THEN "ginbinding.MsgPack"
    ELSE IF Contains(contentType, MultipartForm) THEN "ginbinding.FormMultipart"
    ELSE IF Contains(contentType, FormURLEncoded) THEN "ctx.Bind"
    ELSE "ctx.BindJSON"

\* BindByContentType(ctx, obj): the binder called and the error returned,
\* which is the binder's
BindByContentType(contentType, bindErr) ==
    [binder |-> binderOf(contentType), err |-> bindErr]

\* An error value: nil, an *HTTPError with its Code, or another error
NoError == [type |-> "nil", Code |-> 0, text |-> ""]
HTTPError(code) == [type |-> "*HTTPError", Code |-> code, text |-> ""]
Errorf(text) == [type |-> "error", Code |-> 0, text |-> text]

\* IsHTTPError(err) and GetHTTPStatusCode(err)
IsHTTPError(err) == err.type = "*HTTPError"
GetHTTPStatusCode(err) == IF IsHTTPError(err) THEN err.Code ELSE 0

\* IsClientError(err) and IsServerError(err)
IsClientError(err) == IsHTTPError(err) /\ err.Code >= 400 /\ err.Code < 500
IsServerError(err) == IsHTTPError(err) /\ err.Code >= 500 /\ err.Code < 600

\* fmt.Errorf("<Method> <ClientPath> failed: %w", err): an error of another
\* type that wraps err
Wrapf(text, err) == [type |-> "*fmt.wrapError", Code |-> 0, text |-> text, unwrap |-> err]

\* The methods of Invoke's switch
HTTPMethods ==
    {<<"G", "E", "T">>,
     <<"P", "O", "S", "T">>,
     <<"P", "U", "T">>,
     <<"D", "E", "L", "E", "T", "E">>,
     <<"P", "A", "T", "C", "H">>,
     <<"H", "E", "A", "D">>,
     <<"O", "P", "T", "I", "O", "N", "S">>}

\* resp.IsError() of resty: a status above 399
IsError(status) == status > 399

\* An Invoke that compares the method as it is written
InvokeCaseSensitive(opts, method, resty) ==
    IF method \notin HTTPMethods
    THEN [sent |-> FALSE, err |-> Errorf("unsupported HTTP method")]
    ELSE IF resty.err # "nil" THEN [sent |-> TRUE, err |-> Errorf(resty.err)]
    ELSE IF IsError(resty.status) THEN [sent |-> TRUE, err |-> HTTPError(resty.status)]
    ELSE [sent |-> TRUE, err |-> NoError]

\* client.Invoke of a client with the options opts: resty is what the
\* request method of resty returns, its error and the status of the response
Invoke(opts, method, resty) ==
    IF ToUpper(method) \notin HTTPMethods
    THEN [sent |-> FALSE, err |-> Errorf("unsupported HTTP method")]
    ELSE IF resty.err # "nil" THEN [sent |-> TRUE, err |-> Errorf(resty.err)]
    ELSE IF IsError(resty.status) THEN [sent |-> TRUE, err |-> HTTPError(resty.status)]
    ELSE [sent |-> TRUE, err |-> NoError]

\* The generated client method <Service>HTTPClientImpl.<Name>, after the
\* call of c.client.Invoke that returned invoked: (nil, wrapped error) or
\* (&out, nil)
clientReturn(invoked) ==
    IF invoked.err # NoError
    THEN [out |-> "nil", err |-> Wrapf("failed", invoked.err)]
    ELSE [out |-> "&out", err |-> NoError]

\* NewClient(opts...): the options it starts from
DefaultClientOptions == [errorDecoder |-> "DefaultErrorDecoder"]

\* WithErrorDecoder(decoder)
WithErrorDecoder(o, decoder) == [o EXCEPT !.errorDecoder = decoder]

\* strconv.FormatInt(n, 10)
DigitChars == <<"0", "1", "2", "3", "4", "5", "6", "7", "8", "9">>
RECURSIVE FormatInt(_)
FormatInt(n) ==
    IF n < 0 THEN <<"-">> \o FormatInt(0 - n)
    ELSE IF n < 10 THEN <<DigitChars[n + 1]>>
    ELSE FormatInt(n \div 10) \o <<DigitChars[(n % 10) + 1]>>

\* url.QueryEscape(s), for the characters the model writes
escapeChar(c) ==
    IF c \in Letters \cup Digits \cup {"_", "-", ".", "~"} THEN <<c>>
    ELSE IF c = " " THEN <<"+">>
    ELSE IF c = "&" THEN <<"%", "2", "6">>
    ELSE IF c = "=" THEN <<"%", "3", "D">>
    ELSE IF c = "?" THEN <<"%", "3", "F">>
    ELSE IF c = "/" THEN <<"%", "2", "F">>
    ELSE <<Upper(c)>>
RECURSIVE QueryEscape(_)
QueryEscape(s) == IF s = <<>> THEN <<>> ELSE escapeChar(Head(s)) \o QueryEscape(Tail(s))

\* A field of a struct: its uri and form tags (empty when it has none), its
\* kind and its value, in the component of its kind
IntField(uri, form, n) ==
    [uri |-> uri, form |-> form, kind |-> "int", int |-> n, str |-> <<>>, bool |-> FALSE]
StringField(uri, form, t) ==
    [uri |-> uri, form |-> form, kind |-> "string", int |-> 0, str |-> t, bool |-> FALSE]
BoolField(uri, form, b) ==
    [uri |-> uri, form |-> form, kind |-> "bool", int |-> 0, str |-> <<>>, bool |-> b]

\* getFieldStringValue(field)
getFieldStringValue(field) ==
    IF field.kind = "string" THEN field.str
    ELSE IF field.kind = "int" THEN (IF field.int = 0 THEN <<>> ELSE FormatInt(field.int))
    ELSE IF field.bool THEN <<"t", "r", "u", "e">>
    ELSE <<"f", "a", "l", "s", "e">>

\* EncodeURL's loop from the i-th field on, and what it returns after it
RECURSIVE encodeFrom(_, _, _, _, _)
encodeFrom(fields, i, path, queryParams, query) ==
    IF i > Len(fields)
    THEN (IF Len(queryParams) > 0
          THEN path \o (IF Contains(path, <<"?">>) THEN <<"&">> ELSE <<"?">>)
                    \o Join(queryParams, "&")
          ELSE path)
    ELSE encodeFrom(
           fields, i + 1,
           IF fields[i].uri # <<>> /\ getFieldStringValue(fields[i]) # <<>>
           THEN ReplaceAll(path, <<"{">> \o fields[i].uri \o <<"}">>,
                           getFieldStringValue(fields[i]))
           ELSE path,
           IF query /\ fields[i].form # <<>> /\ getFieldStringValue(fields[i]) # <<>>
           THEN Append(queryParams,
                       QueryEscape(fields[i].form) \o <<"=">>
                       \o QueryEscape(getFieldStringValue(fields[i])))
           ELSE queryParams,
           query)

\* EncodeURL(pathTemplate, input, query): input is nil, a struct or a pointer
\* to one with its fields, or something else
EncodeURL(pathTemplate, input, query) ==
    IF input.kind \notin {"struct", "ptr"} THEN pathTemplate
    ELSE encodeFrom(input.fields, 1, pathTemplate, <<>>, query)

\* The Content-Type headers of the requests
ApplicationJSON ==
    <<"a", "p", "p", "l", "i", "c", "a", "t", "i", "o", "n", "/", "j", "s", "o", "n">>
TextPlain == <<"t", "e", "x", "t", "/", "p", "l", "a", "i", "n">>
Charset == <<";", " ", "c", "h", "a", "r", "s", "e", "t", "=", "u", "t", "f", "-", "8">>
ContentTypes ==
    {<<>>, ApplicationJSON, TextPlain,
     ApplicationXML, TextXML, ApplicationYAML, TextYAML, ApplicationTOML,
     ApplicationProtoBuf, ApplicationMsgPack, MultipartForm, FormURLEncoded,
     ApplicationXML \o Charset,
     MultipartForm \o <<";", " ", "b", "o", "u", "n", "d", "a", "r", "y", "=", "x">>,
     ApplicationXML \o <<"-", "d", "t", "d">>,
     ToUpper(ApplicationXML),
     TextYAML \o <<";", " ", "x", "=">> \o TextXML,
     TextPlain \o <<";", " ", "x", "=">> \o ApplicationTOML}

BindCalls ==
    [fn : {"BindByContentType"}, contentType : ContentTypes, bindErr : {"nil", "err"}]

\* The methods Invoke is called with
Methods ==
    HTTPMethods
    \cup {<<"g", "e", "t">>, <<"P", "o", "s", "t">>, <<"o", "p", "t", "i", "o", "n", "s">>,
          <<"T", "R", "A", "C", "E">>, <<>>}

\* What resty returns: a response, a failure that leaves none (status 0), or
\* an error together with a response
RestyOutcomes ==
    [err : {"nil"}, status : {200, 204, 302, 399, 400, 404, 500}]
    \cup {[err |-> "transport", status |-> 0], [err |-> "decode", status |-> 200],
          [err |-> "middleware", status |-> 404]}

ClientOptions == {DefaultClientOptions, WithErrorDecoder(DefaultClientOptions, "custom")}

InvokeCalls ==
    [fn : {"Invoke"}, opts : ClientOptions, method : Methods, resty : RestyOutcomes]

\* GetUserReq of the README, with its tags
TagUserID == <<"u", "s", "e", "r", "_", "i", "d">>
TagPage == <<"p", "a", "g", "e">>
TagPageSize == <<"p", "a", "g", "e", "_", "s", "i", "z", "e">>
TagKeyword == <<"k", "e", "y", "w", "o", "r", "d">>
GetUserReq(userID, page, pageSize, keyword) ==
    <<IntField(TagUserID, <<>>, userID), IntField(<<>>, TagPage, page),
      IntField(<<>>, TagPageSize, pageSize), StringField(<<>>, TagKeyword, keyword)>>

Golang == <<"g", "o", "l", "a", "n", "g">>
UsersTemplate == <<"/", "u", "s", "e", "r", "s", "/">> \o <<"{">> \o TagUserID \o <<"}">>

PathTemplates ==
    {UsersTemplate, UsersTemplate \o <<"?", "x", "=", "1">>,
     <<"/", "u", "s", "e", "r", "s", "/">>}

Structs ==
    {GetUserReq(u, p, ps, k) :
        u \in {0, 123}, p \in {0, 1}, ps \in {0, 10}, k \in {<<>>, Golang, <<"a", " ", "b">>}}

\* The inputs of EncodeURL: nil, a nil pointer, a string, structs and
\* pointers to structs
Inputs ==
    {[kind |-> k, fields |-> <<>>] : k \in {"nil", "nilptr", "string"}}
    \cup [kind : {"struct", "ptr"}, fields : Structs]

EncodeCalls ==
    [fn : {"EncodeURL"}, pathTemplate : PathTemplates, input : Inputs, query : BOOLEAN]

(***************************************************************************)
(* One run of a generated handler, step by step: the template of           *)
(* _<Service>_<Name><Num>_HTTP_Handler rendered for one descriptor.        *)
(***************************************************************************)
\* The binders of gin that answer 400 and abort when they fail (c.Bind,
\* c.BindJSON, ...: MustBindWith); c.ShouldBindWith only returns the error.
mustBind(binder) ==
    binder \in {"ctx.BindXML", "ctx.BindYAML", "ctx.BindTOML", "ctx.Bind", "ctx.BindJSON",
                "ctx.BindQuery", "ctx.BindUri"}

\* A handler that binds the query string for every rule
bindsQueryAlways(md) == TRUE

\* {{if .HasBody}} ... {{if not (eq .Body "")}} query {{end}} {{else}} query {{end}}
bindsQuery(md) == IF md.HasBody THEN md.Body # <<>> ELSE TRUE

\* The step of the handler that follows step, for the descriptor md
stepAfter(md, step) ==
    IF step = "operation" /\ md.HasBody THEN "body"
    ELSE IF step \in {"operation", "body"} /\ bindsQuery(md) THEN "query"
    ELSE IF step \in {"operation", "body", "query"} /\ md.HasParams THEN "uri"
    ELSE "call"

\* if err := <binder>; err != nil { ctx.Error(err); return }: the context
\* after the binder failed
bindFailed(h, binder) ==
    IF mustBind(binder)
    THEN [h EXCEPT !.pc = "returned", !.status = StatusBadRequest, !.aborted = TRUE,
                   !.Errors = @ \o <<binder, binder>>]
    ELSE [h EXCEPT !.pc = "returned", !.Errors = Append(@, binder)]

\* The handler after a binding step made with binder: it goes on when the
\* binder returns nil and returns when it fails
bindStep(h, step, binder) ==
    IF step \in h.fails
    THEN bindFailed([h EXCEPT !.trace = Append(@, step)], binder)
    ELSE [h EXCEPT !.trace = Append(@, step), !.pc = stepAfter(h.md, step)]

\* ctx.Set("operation", Operation<Service><Method>)
HandlerSetOperation ==
    /\ handler # NoCall
    /\ handler.pc = "operation"
    /\ handler' = [handler EXCEPT !.trace = Append(@, "operation"),
                                  !.Keys = Set(@, "operation", handler.md.OriginalName),
                                  !.pc = stepAfter(handler.md, "operation")]
    /\ UNCHANGED <<breaker, ruleVars, genVars, mwVars, callVars>>

\* binding1.BindByContentType(ctx, &in)
HandlerBindBody ==
    /\ handler # NoCall
    /\ handler.pc = "body"
    /\ handler' = bindStep(handler, "body", binderOf(handler.contentType))
    /\ UNCHANGED <<breaker, ruleVars, genVars, mwVars, callVars>>

\* ctx.BindQuery(&in)
HandlerBindQuery ==
    /\ handler # NoCall
    /\ handler.pc = "query"
    /\ handler' = bindStep(handler, "query", "ctx.BindQuery")
    /\ UNCHANGED <<breaker, ruleVars, genVars, mwVars, callVars>>

\* ctx.BindUri(&in)
HandlerBindUri ==
    /\ handler # NoCall
    /\ handler.pc = "uri"
    /\ handler' = bindStep(handler, "uri", "ctx.BindUri")
    /\ UNCHANGED <<breaker, ruleVars, genVars, mwVars, callVars>>

\* reply, err := srv.<Name>(newCtx, &in); if err != nil { ctx.Error(err); return }
HandlerCall ==
    /\ handler # NoCall
    /\ handler.pc = "call"
    /\ handler' = IF handler.srv = "error"
                  THEN [handler EXCEPT !.trace = Append(@, "srv"), !.pc = "returned",
                                       !.Errors = Append(@, "srv")]
                  ELSE [handler EXCEPT !.trace = Append(@, "srv"), !.pc = "reply"]
    /\ UNCHANGED <<breaker, ruleVars, genVars, mwVars, callVars>>

\* ctx.JSON(200, reply)
HandlerReply ==
    /\ handler # NoCall
    /\ handler.pc = "reply"
    /\ handler' = [handler EXCEPT !.trace = Append(@, "reply"), !.pc = "returned",
                                  !.status = StatusOK, !.body = "reply"]
    /\ UNCHANGED <<breaker, ruleVars, genVars, mwVars, callVars>>

\* The rules whose handlers are run: with and without a body, with and
\* without a placeholder in the path
HandlerRules ==
    {Rule(pattern, path, body) :
        pattern \in {"get", "post"},
        path \in {<<"/", "v">>, <<"/", "v", "/", "{", "i", "d", "}">>},
        body \in Bodies}

\* The steps of a request that fail when they are made
FailingSteps == SUBSET {"body", "query", "uri"}

\* A handler about to serve a request: gin's context starts with status 200
NewHandler(rule, contentType, fails, srv) ==
    [rule |-> rule, md |-> buildHTTPRule(ExampleMethod, rule, 0, <<>>).md,
     contentType |-> contentType, fails |-> fails, srv |-> srv,
     pc |-> "operation", trace |-> <<>>, Keys |-> <<>>, Errors |-> <<>>,
     aborted |-> FALSE, status |-> StatusOK, body |-> "none"]

InitHandler ==
    /\ RuleIdle
    /\ GenIdle
    /\ MwIdle
    /\ CallIdle
    /\ breaker = NoCall
    /\ handler \in {NewHandler(rule, contentType, fails, srv) :
                       rule \in HandlerRules,
                       contentType \in {ApplicationJSON, ApplicationProtoBuf},
                       fails \in FailingSteps, srv \in {"reply", "error"}}

NextHandler ==
    \/ HandlerSetOperation
    \/ HandlerBindBody
    \/ HandlerBindQuery
    \/ HandlerBindUri
    \/ HandlerCall
    \/ HandlerReply

SpecHandler == InitHandler /\ [][NextHandler]_vars

(***************************************************************************)
(* The generated client and the generated handler together                 *)
(***************************************************************************)
\* A request message of the examples as a Go value: Id a string, L a
\* repeated string of at most one element (written as that element), S a
\* message with the string Id; M is left empty.
ZeroMessage == [id |-> <<>>, l |-> <<>>, s |-> [id |-> <<>>]]
Messages == [id : {<<>>, <<"7">>}, l : {<<>>, <<"x">>}, s : [id : {<<>>, <<"8">>}]]

\* in<Body>, the second argument of Invoke: nil, the message, or the field
\* that the body selector names
NoBody == [kind |-> "nil"]
selectBody(in, body) ==
    IF body = <<>> THEN [kind |-> "message", value |-> in]
    ELSE IF body = <<".", "I", "d">> THEN [kind |-> "string", text |-> in.id]
    ELSE IF body = <<".", "S">> THEN [kind |-> "message", value |-> [id |-> in.s.id]]
    ELSE [kind |-> "string", text |-> in.l]

\* fmt.Sprintf("%v", in.<camelCase param>)
Sprintv(in, goName) == IF goName = <<"I", "d">> THEN in.id ELSE in.l

\* path = strings.ReplaceAll(path, "{<param>}", fmt.Sprintf("%v", in.<Param>))
\* for each of PathParams from the i-th on
RECURSIVE substitute(_, _, _, _)
substitute(path, pathParams, i, in) ==
    IF i > Len(pathParams) THEN path
    ELSE substitute(ReplaceAll(path, <<"{">> \o pathParams[i] \o <<"}">>,
                               Sprintv(in, camelCase(pathParams[i]))),
                    pathParams, i + 1, in)

\* The request that the generated client method of md sends for in through
\* client.Invoke: Invoke sets the body when args is not nil and nothing else
ClientMethod(md, in) ==
    [method |-> md.Method,
     path |-> IF md.HasParams THEN substitute(md.ClientPath, md.PathParams, 1, in)
              ELSE md.ClientPath,
     query |-> [k \in {} |-> <<>>],
     body |-> IF md.Method # "GET" /\ md.HasBody THEN selectBody(in, md.Body) ELSE NoBody]

\* gin's router: the pieces of a request path against those of a route
\* path, a piece ":name" taking any non-empty piece
matchPieces(pieces, path) ==
    /\ Len(pieces) = Len(path)
    /\ \A i \in DOMAIN pieces :
          IF pieces[i] # <<>> /\ pieces[i][1] = ":" THEN path[i] # <<>> ELSE pieces[i] = path[i]
paramsOfPieces(pieces, path) ==
    [name \in {Tail(pieces[i]) : i \in {j \in DOMAIN pieces : pieces[j] # <<>> /\ pieces[j][1] = ":"}}
       |-> path[CHOOSE i \in DOMAIN pieces : pieces[i] = <<":">> \o name]]

\* The JSON binder on the body that the client sent, into &in
bindBody(in, body) ==
    IF body.kind # "message" THEN [err |-> TRUE, in |-> in]
    ELSE [err |-> FALSE,
          in |-> [in EXCEPT !.id = IF "id" \in DOMAIN body.value THEN body.value.id ELSE @,
                            !.l = IF "l" \in DOMAIN body.value THEN body.value.l ELSE @,
                            !.s = IF "s" \in DOMAIN body.value THEN body.value.s ELSE @]]

\* ctx.BindQuery(&in) and ctx.BindUri(&in): the values of the keys that
\* name a field
bindValues(in, values) ==
    [in EXCEPT !.id = IF <<"i", "d">> \in DOMAIN values THEN values[<<"i", "d">>] ELSE @,
               !.l = IF <<"l">> \in DOMAIN values THEN values[<<"l">>] ELSE @]

\* The generated handler of md on the request r: the status of the answer
\* and the request message given to the service method
decodedAfterBody(md, r, b) ==
    IF b.err THEN [status |-> StatusBadRequest, in |-> ZeroMessage]
    ELSE [status |-> StatusOK,
          in |-> (IF md.HasParams
                  THEN bindValues(IF bindsQuery(md) THEN bindValues(b.in, r.query) ELSE b.in,
                                  paramsOfPieces(Split(md.Path, "/"), Split(r.path, "/")))
                  ELSE IF bindsQuery(md) THEN bindValues(b.in, r.query) ELSE b.in)]
ServerHandler(md, r) ==
    IF r.method # md.Method \/ ~matchPieces(Split(md.Path, "/"), Split(r.path, "/"))
    THEN [status |-> StatusNotFound, in |-> ZeroMessage]
    ELSE decodedAfterBody(md, r, IF md.HasBody THEN bindBody(ZeroMessage, r.body)
                                 ELSE [err |-> FALSE, in |-> ZeroMessage])

\* The rules of the round trips
RoundTripRules ==
    {Rule(pattern, path, body) :
        pattern \in {"get", "post", "put", "delete"},
        path \in {<<"/", "v">>, <<"/", "v", "/", "{", "i", "d", "}">>},
        body \in Bodies \cup {<<"s">>}}

RoundTripCalls == [fn : {"RoundTrip"}, rule : RoundTripRules, in : Messages]

\* The calls of a generated client method: its rule's verb and what resty
\* returns
ClientCalls ==
    [fn : {"ClientMethod"}, method : {<<"G", "E", "T">>, <<"P", "O", "S", "T">>},
     resty : RestyOutcomes]

\* One call of one of the functions.
InitCall ==
    /\ RuleIdle
    /\ GenIdle
    /\ MwIdle
    /\ UnitIdle
    /\ callIn \in BindCalls \cup InvokeCalls \cup EncodeCalls \cup RoundTripCalls
                 \cup ClientCalls
    /\ callOut = NoResult

called(fn) == callIn.fn = fn /\ callOut = NoResult

CallBindByContentType ==
    /\ called("BindByContentType")
    /\ callOut' = BindByContentType(callIn.contentType, callIn.bindErr)
    /\ UNCHANGED <<callIn, ruleVars, genVars, mwVars, unitVars>>

CallInvoke ==
    /\ called("Invoke")
    /\ callOut' = Invoke(callIn.opts, callIn.method, callIn.resty)
    /\ UNCHANGED <<callIn, ruleVars, genVars, mwVars, unitVars>>

CallEncodeURL ==
    /\ called("EncodeURL")
    /\ callOut' = [url |-> EncodeURL(callIn.pathTemplate, callIn.input, callIn.query)]
    /\ UNCHANGED <<callIn, ruleVars, genVars, mwVars, unitVars>>

\* The generated client method is called with callIn.in and the generated
\* handler of the same rule serves the request it sends
CallRoundTrip ==
    /\ called("RoundTrip")
    /\ \E md \in {buildHTTPRule(ExampleMethod, callIn.rule, 0, <<>>).md} :
          \E sent \in {ClientMethod(md, callIn.in)} :
             callOut' = [sent |-> sent, served |-> ServerHandler(md, sent)]
    /\ UNCHANGED <<callIn, ruleVars, genVars, mwVars, unitVars>>

\* A generated client method is called and the server answers
CallClientMethod ==
    /\ called("ClientMethod")
    /\ callOut' = clientReturn(Invoke(DefaultClientOptions, callIn.method, callIn.resty))
    /\ UNCHANGED <<callIn, ruleVars, genVars, mwVars, unitVars>>

NextOfCall ==
    \/ CallBindByContentType
    \/ CallInvoke
    \/ CallEncodeURL
    \/ CallRoundTrip
    \/ CallClientMethod

SpecCall == InitCall /\ [][NextOfCall]_vars

(***************************************************************************)
(* A client with CircuitBreakerMiddleware(threshold) among its request     *)
(* middlewares: requests are made one after the other and time passes.     *)
(* failures, lastFailTime are the variables of the closure, hooks the      *)
(* number of functions it has given to c.OnError, now the clock in         *)
(* seconds; failed counts the requests that failed since the counter was   *)
(* last reset, and last is what became of the last request.                *)
(***************************************************************************)
MaxThreshold == 3
MaxRequests == 5
MaxTicks == 4
TickSeconds == 15
OpenSeconds == 30

\* CircuitBreakerMiddleware(threshold): failures := 0, lastFailTime :=
\* time.Time{}, a time more than 30 seconds before any other
CircuitBreakerMiddleware(threshold) ==
    [threshold |-> threshold, failures |-> 0, lastFailTime |-> 0 - OpenSeconds,
     hooks |-> 0, now |-> 0, requests |-> 0, failed |-> 0, last |-> "none"]

\* failures >= threshold && time.Since(lastFailTime) < 30*time.Second
open(b) == b.failures >= b.threshold /\ b.now - b.lastFailTime < OpenSeconds

\* The functions given to c.OnError are run: each does failures++ and
\* lastFailTime = time.Now()
onError(b) ==
    IF b.hooks = 0 THEN b
    ELSE [b EXCEPT !.failures = @ + b.hooks, !.lastFailTime = b.now]

\* The request middleware when it lets the request through: the counter is
\* reset when it had reached the threshold, and one more function is given
\* to c.OnError
through(b) ==
    [b EXCEPT !.failures = IF @ >= b.threshold THEN 0 ELSE @,
              !.failed = IF b.failures >= b.threshold THEN 0 ELSE @,
              !.hooks = @ + 1,
              !.requests = @ + 1]

\* A request that the middleware refuses: "circuit breaker open: too many
\* failures". resty reports the error of a request middleware to the
\* functions given to OnError in the versions that do so.
InvokeRefused ==
    /\ breaker # NoCall
    /\ breaker.requests < MaxRequests
    /\ open(breaker)
    /\ \E reported \in BOOLEAN :
       \E b \in {[breaker EXCEPT !.requests = @ + 1, !.last = "refused"]} :
          breaker' = IF reported THEN onError(b) ELSE b
    /\ UNCHANGED <<handler, ruleVars, genVars, mwVars, callVars>>

\* A request that is let through and answered
InvokeAnswered ==
    /\ breaker # NoCall
    /\ breaker.requests < MaxRequests
    /\ ~open(breaker)
    /\ breaker' = [through(breaker) EXCEPT !.last = "answered"]
    /\ UNCHANGED <<handler, ruleVars, genVars, mwVars, callVars>>

\* A request that is let through and fails: resty runs the functions given
\* to OnError
InvokeFailed ==
    /\ breaker # NoCall
    /\ breaker.requests < MaxRequests
    /\ ~open(breaker)
    /\ breaker' = onError([through(breaker) EXCEPT !.last = "failed", !.failed = @ + 1])
    /\ UNCHANGED <<handler, ruleVars, genVars, mwVars, callVars>>

\* Time passes
Tick ==
    /\ breaker # NoCall
    /\ breaker.now < MaxTicks * TickSeconds
    /\ breaker' = [breaker EXCEPT !.now = @ + TickSeconds]
    /\ UNCHANGED <<handler, ruleVars, genVars, mwVars, callVars>>

InitBreaker ==
    /\ RuleIdle
    /\ GenIdle
    /\ MwIdle
    /\ CallIdle
    /\ handler = NoCall
    /\ breaker \in {CircuitBreakerMiddleware(threshold) : threshold \in 1..MaxThreshold}

NextBreaker ==
    \/ InvokeRefused
    \/ InvokeAnswered
    \/ InvokeFailed
    \/ Tick

SpecBreaker == InitBreaker /\ [][NextBreaker]_vars

(***************************************************************************)
(* The generator's properties                                              *)
(***************************************************************************)
\* A path template in which every brace belongs to a {field} placeholder
\* without a pattern, and no piece is already written in the router's syntax.
plainTemplate(path) ==
    /\ \A k \in DOMAIN paramMatches(path, 1) :
          /\ paramMatches(path, 1)[k].value = <<>>
          /\ paramMatches(path, 1)[k].name # <<>>
          /\ " " \notin {paramMatches(path, 1)[k].name[j] :
                            j \in DOMAIN paramMatches(path, 1)[k].name}
    /\ Cardinality({i \in DOMAIN path : path[i] \in Braces})
          = 2 * Len(paramMatches(path, 1))
    /\ \A i \in DOMAIN path : path[i] = ":" => i > 1 /\ path[i - 1] # "/"

\* The path with each of the placeholders ms[k..] written :field and
\* everything else, from index i on, as it is.
RECURSIVE rewritten(_, _, _, _)
rewritten(path, ms, k, i) ==
    IF k > Len(ms) THEN SubSeq(path, i, Len(path))
    ELSE SubSeq(path, i, ms[k].from - 1) \o <<":">> \o ms[k].name
         \o rewritten(path, ms, k + 1, ms[k].to + 1)

\* C1: the route path of the descriptor built from a rule is the rule's path
\* template with each {field} placeholder rewritten to :field and every other
\* part of it unchanged.
C1_PlaceholdersRewritten ==
    (ruleOut # NoResult /\ ruleOut.outcome = "ok" /\ plainTemplate(ruleIn.path))
        => ruleOut.md.Path = rewritten(ruleIn.path, paramMatches(ruleIn.path, 1), 1, 1)

\* Some placeholder of the path names a field that the request message lacks.
namesAbsentField(path, input) ==
    \E k \in DOMAIN paramMatches(path, 1) :
        walkFields(Split(TrimSpace(paramMatches(path, 1)[k].name), "."), 1, input).exit

\* C4: generation ends with exit status 2 only when a placeholder of the path
\* names a field that is absent from the request message.
C4_ExitOnlyForAbsentField ==
    (ruleOut # NoResult /\ ruleOut.outcome # "ok")
        => namesAbsentField(ruleIn.path, ExampleMethod.input)

\* The routes rendered for the method called name of the service fullName: the
\* descriptors of the Register functions' range over .Methods, in order.
renderedRoutes(fullName, name) ==
    IF generated = NoFile
       \/ ~\E k \in DOMAIN generated.services :
              generated.services[k].ServiceName = fullName
    THEN <<>>
    ELSE SelectSeq(
            generated.services[CHOOSE k \in DOMAIN generated.services :
                                  generated.services[k].ServiceName = fullName].Methods,
            LAMBDA md : md.Name = name)

\* The rule whose verb and path the i-th route of a method with this rule has
routeRule(rule, i) == IF i <= Len(rule.bindings) THEN rule.bindings[i] ELSE rule

\* The routes rs are those of method m of service sv, whose rule has n
\* additional bindings: n + 1 of them, the bindings' in order and then the
\* rule's, each a handler of its own (Num) calling m under m's operation name.
bindingRoutes(rs, sv, m) ==
    /\ Len(rs) = Len(m.rule.bindings) + 1
    /\ \A i \in DOMAIN rs :
          /\ rs[i].Method = ruleMethod(routeRule(m.rule, i))
          /\ rs[i].ClientPath = routeRule(m.rule, i).path
          /\ rs[i].Name = m.goName
          /\ operationName(sv.fullName, rs[i]) = <<"/">> \o sv.fullName \o <<"/">> \o m.name
    /\ \A i, j \in DOMAIN rs : rs[i].Num = rs[j].Num => i = j

\* C2: when the file has been generated, every non-streaming method with a
\* rule of n additional bindings has exactly n + 1 routes: one per binding in
\* declaration order and then the rule's own, each with its verb and path and
\* its own handler, all calling the same method under the same operation name.
C2_OneRoutePerBinding ==
    (gpc = "done" /\ generated # NoFile) =>
        \A si \in DOMAIN file.services : \A mi \in DOMAIN file.services[si].methods :
            (/\ ~isStreaming(file.services[si].methods[mi])
             /\ file.services[si].methods[mi].rule # NoRule)
                => bindingRoutes(renderedRoutes(file.services[si].fullName,
                                          file.services[si].methods[mi].goName),
                                 file.services[si], file.services[si].methods[mi])

\* A generated file with the MaxBindings + 1 routes of a method.
C2_Witness ==
    /\ gpc = "done"
    /\ generated # NoFile
    /\ \E si \in DOMAIN file.services : \E mi \in DOMAIN file.services[si].methods :
          /\ ~isStreaming(file.services[si].methods[mi])
          /\ file.services[si].methods[mi].rule # NoRule
          /\ Len(file.services[si].methods[mi].rule.bindings) >= 2
          /\ Len(renderedRoutes(file.services[si].fullName,
                          file.services[si].methods[mi].goName)) >= 3

\* No non-streaming method of the file has a rule.
noRuleToServe(f) ==
    \A si \in DOMAIN f.services : \A mi \in DOMAIN f.services[si].methods :
        f.services[si].methods[mi].streaming = "unary"
            => f.services[si].methods[mi].rule = NoRule

\* The one route of a method without a rule: POST /<service full name>/<method name>
defaultRoute(rs, sv, m) ==
    /\ Len(rs) = 1
    /\ rs[1].Method = "POST"
    /\ rs[1].Path = <<"/">> \o sv.fullName \o <<"/">> \o m.name

\* C5: no file is generated for a file without services, or with omitempty
\* when no non-streaming method has a rule; a streaming method has no route;
\* a non-streaming method without a rule has the one route
\* POST /<service full name>/<method name> when omitempty is unset and no
\* route when it is set.
C5_WhatIsGenerated ==
    /\ (gpc # "start" /\ file # NoFile
        /\ (Len(file.services) = 0 \/ (omitempty /\ noRuleToServe(file))))
          => generated = NoFile
    /\ (gpc \in {"method", "done"} /\ svcIdx <= Len(file.services))
          => \A i \in DOMAIN sdMethods :
                \A mi \in DOMAIN curService.methods :
                    sdMethods[i].Name = curService.methods[mi].goName
                        => curService.methods[mi].streaming = "unary"
    /\ (gpc = "done" /\ generated # NoFile) =>
          \A si \in DOMAIN file.services : \A mi \in DOMAIN file.services[si].methods :
             /\ file.services[si].methods[mi].streaming # "unary"
                  => renderedRoutes(file.services[si].fullName,
                              file.services[si].methods[mi].goName) = <<>>
             /\ (/\ file.services[si].methods[mi].streaming = "unary"
                 /\ file.services[si].methods[mi].rule = NoRule)
                  => IF omitempty
                     THEN renderedRoutes(file.services[si].fullName,
                                   file.services[si].methods[mi].goName) = <<>>
                     ELSE defaultRoute(renderedRoutes(file.services[si].fullName,
                                                file.services[si].methods[mi].goName),
                                       file.services[si], file.services[si].methods[mi])

\* A generated file in which a method without a rule has its default route
\* while a streaming method of the same service has none.
C5_Witness ==
    /\ gpc = "done"
    /\ generated # NoFile
    /\ ~omitempty
    /\ \E si \in DOMAIN file.services :
       \E mi, mj \in DOMAIN file.services[si].methods :
          /\ file.services[si].methods[mi].streaming = "unary"
          /\ file.services[si].methods[mi].rule = NoRule
          /\ Len(renderedRoutes(file.services[si].fullName,
                          file.services[si].methods[mi].goName)) = 1
          /\ file.services[si].methods[mj].streaming = "server"
          /\ file.services[si].methods[mj].rule # NoRule

(***************************************************************************)
(* The properties of the generated code and of the middleware at run time  *)
(***************************************************************************)
registeredBy(by) == reg # NoRequest /\ reg.by = by
ended == mpc \in {"done", "crashed"}
handlerRan == \E i \in DOMAIN log : log[i][1] = "handler"
markRan(id) == \E i \in DOMAIN log : log[i][1] = "mark" /\ log[i][2] = id

\* The operation name of the i-th route: /<service full name>/<method>
operationOf(i) == <<"/">> \o sd.ServiceName \o <<"/">> \o sd.Methods[i].OriginalName

\* The i-th route is the i-th method's, and its last handler the generated one
routeOfMethod(i) ==
    /\ router[i].method = sd.Methods[i].Method
    /\ router[i].path = sd.Methods[i].Path
    /\ router[i].handlers[Len(router[i].handlers)].kind = "handler"
    /\ router[i].handlers[Len(router[i].handlers)].name = sd.Methods[i].Name
    /\ router[i].handlers[Len(router[i].handlers)].num = sd.Methods[i].Num

\* The handlers of the i-th route that come before the generated one
middlewaresOf(i) == SubSeq(router[i].handlers, 1, Len(router[i].handlers) - 1)

\* C3: Register<Service>HTTPServerWithOperationMiddleware registers every
\* route exactly once; a route whose operation name is a key of the map has
\* that key's middlewares in order and then the generated handler, any other
\* route the handler alone, whatever other keys the map has.
C3_OperationMiddleware ==
    registeredBy("RegisterHTTPServerWithOperationMiddleware") =>
        /\ Len(router) = Len(sd.Methods)
        /\ \A i \in DOMAIN router :
              /\ routeOfMethod(i)
              /\ middlewaresOf(i) = IF operationOf(i) \in DOMAIN reg.middlewares
                                    THEN reg.middlewares[operationOf(i)]
                                    ELSE <<>>

\* The routes registered with a map that has middlewares for Get's operation
\* and for an operation that no method has.
C3_Witness ==
    /\ registeredBy("RegisterHTTPServerWithOperationMiddleware")
    /\ DOMAIN reg.middlewares = {<<"/", "p", ".", "S", "/", "G", "e", "t">>,
                                 <<"/", "p", ".", "S", "/", "P", "u", "t">>}
    /\ \A k \in DOMAIN reg.middlewares : Len(reg.middlewares[k]) = 2
    /\ Len(router[1].handlers) = 3
    /\ Len(router[3].handlers) = 1

\* The concatenation of the sequences of ss from the i-th on
RECURSIVE concat(_, _)
concat(ss, i) == IF i > Len(ss) THEN <<>> ELSE ss[i] \o concat(ss, i + 1)

\* C6: Register<Service>HTTPServerWithMiddleware gives every route the
\* middlewares in the given order and then the generated handler;
\* MiddlewareGroup.Apply returns the middlewares in insertion order; and a
\* request to a route registered with the group's middlewares reaches the
\* handler after every middleware of the group has run, in that order.
C6_MiddlewareOrder ==
    /\ registeredBy("RegisterHTTPServerWithMiddleware") =>
          /\ Len(router) = Len(sd.Methods)
          /\ \A i \in DOMAIN router :
                routeOfMethod(i) /\ middlewaresOf(i) = reg.middlewares
    /\ mg # NoGroup => Apply(mg) = concat(given, 1)
    /\ (registeredBy("RegisterHTTPServerWithMiddleware") /\ mg # NoGroup) =>
          /\ reg.middlewares = concat(given, 1)
          /\ \A p \in DOMAIN log :
                log[p][1] = "handler" =>
                    SubSeq(log, 1, p - 1)
                        = [i \in 1..Len(concat(given, 1)) |->
                              <<"mark", concat(given, 1)[i].id>>]
          /\ ended => handlerRan

\* A request served through a group of MaxGroup middlewares that was made by
\* NewMiddlewareGroup and Add.
C6_Witness ==
    /\ mpc = "done"
    /\ mg # NoGroup
    /\ Len(given) >= 2
    /\ given[1] # <<>>
    /\ Len(Apply(mg)) >= 3
    /\ Apply(mg)[1] # Apply(mg)[2]
    /\ handlerRan

\* The request is one that the selector is for
selected(selector) ==
    \/ selector.type = "PathSelector" /\ req.Path = selector.Path
    \/ selector.type = "MethodSelector" /\ req.Method = selector.Method

\* A conditional middleware around Mark("a") is the first handler of the
\* routes, and no other handler is a Mark("a").
conditionalFirst ==
    /\ registeredBy("RegisterHTTPServerWithMiddleware")
    /\ reg.middlewares # <<>>
    /\ reg.middlewares[1].kind = "conditional"
    /\ reg.middlewares[1].middleware = Mark("a")

\* C7: the handler of NewConditionalMiddleware(selector, mw).Apply() runs mw
\* for a request exactly when the selector matches it: a PathSelector when
\* the request's path is its Path, a MethodSelector when the request's method
\* is its Method; when it does not match, mw does not run and the request
\* goes on to the next handler.
C7_Conditional ==
    (conditionalFirst /\ ended) =>
        /\ markRan("a") <=> selected(reg.middlewares[1].selector)
        /\ ~selected(reg.middlewares[1].selector) =>
              /\ log # <<>>
              /\ log[1][1] = IF Len(reg.middlewares) > 1 THEN "mark" ELSE "handler"

\* A request to /w has passed a conditional middleware for the path /v.
C7_Witness ==
    /\ conditionalFirst
    /\ mpc = "done"
    /\ reg.middlewares[1].selector = PathSelector(PathV)
    /\ req.Path = PathW
    /\ ~markRan("a")
    /\ handlerRan

\* A bearer middleware with only a validator is the middleware of the routes
validatorOnly ==
    /\ registeredBy("RegisterHTTPServerWithMiddleware")
    /\ Len(reg.middlewares) = 1
    /\ reg.middlewares[1].kind = "bearer"
    /\ reg.middlewares[1].config.Skipper = "nil"
    /\ reg.middlewares[1].config.Validator # "nil"
    /\ reg.middlewares[1].config.ErrorHandler = "nil"

\* C8: under BearerAuthWithConfig with an AuthConfig that sets only a
\* Validator, a request whose bearer token the validator rejects is answered
\* 401 and the service handler is not invoked.
C8_RejectedTokenIs401 ==
    (validatorOnly /\ ended /\ req.Authorization = Bearer \o <<"u">>) =>
        /\ mpc = "done"
        /\ ctx.status = StatusUnauthorized
        /\ ~handlerRan

\* BearerAuth() is one of the middlewares of the routes
bearerAuthGiven ==
    /\ registeredBy("RegisterHTTPServerWithMiddleware")
    /\ \E i \in DOMAIN reg.middlewares : reg.middlewares[i] = BearerAuth

\* The Authorization header is "Bearer " and then a token that is not empty
bearerToken ==
    /\ Len(req.Authorization) > Len(Bearer)
    /\ SubSeq(req.Authorization, 1, Len(Bearer)) = Bearer

\* The handlers after BearerAuth() have run: the generated handler, and
\* Mark("b") where that is given after it
downstreamRan == handlerRan \/ markRan("b")

\* C9: BearerAuth() lets a request go on to the handlers after it exactly
\* when its Authorization header is "Bearer " and a token that is not empty,
\* and then the token is in the context under "token"; any other request is
\* answered 401 and aborted and never reaches them.
C9_BearerAuth ==
    (bearerAuthGiven /\ ended) =>
        IF bearerToken
        THEN /\ handlerRan
             /\ "token" \in DOMAIN ctx.Keys
             /\ ctx.Keys["token"]
                   = SubSeq(req.Authorization, Len(Bearer) + 1, Len(req.Authorization))
        ELSE /\ ~downstreamRan
             /\ ctx.status = StatusUnauthorized
             /\ ctx.aborted
             /\ "token" \notin DOMAIN ctx.Keys

\* A request with a header that is "Bearer " alone has been turned away.
C9_Witness ==
    /\ bearerAuthGiven
    /\ mpc = "done"
    /\ req.Authorization = Bearer
    /\ ctx.status = StatusUnauthorized
    /\ ~handlerRan

\* A recovery middleware that is not skipped is the first of the middlewares
recoveryFirst ==
    /\ registeredBy("RegisterHTTPServerWithMiddleware")
    /\ reg.middlewares # <<>>
    /\ reg.middlewares[1].kind = "recovery"
    /\ reg.middlewares[1].config.Skipper = "nil"

\* C10: whatever the RecoveryConfig, when a handler after
\* RecoveryWithConfig(config) panics the panic is caught, the response status
\* is 500 and the request is aborted.
C10_PanicRecovered ==
    (recoveryFirst /\ ended /\ req.outcome = "panic") =>
        /\ mpc = "done"
        /\ ctx.status = StatusInternalServerError
        /\ ctx.aborted

\* The middlewares given to Register<Service>HTTPServerWithMiddleware begin
\* with a middleware of this kind
firstGiven(kind) ==
    /\ registeredBy("RegisterHTTPServerWithMiddleware")
    /\ reg.middlewares # <<>>
    /\ reg.middlewares[1].kind = kind

\* C11: registered with Register<Service>HTTPServerWithMiddleware(r, srv,
\* middleware.CORS()), an OPTIONS request with an Origin header to the path
\* of a registered route is answered 204.
C11_PreflightIs204 ==
    (/\ registeredBy("RegisterHTTPServerWithMiddleware")
     /\ reg.middlewares = <<CORS>>
     /\ ended
     /\ req.Method = "OPTIONS"
     /\ req.Origin # <<>>) =>
        /\ mpc = "done"
        /\ ctx.status = StatusNoContent

\* The log lines that LoggingWithConfig's handler has written to gin.DefaultWriter
defaultWriterLines ==
    {i \in DOMAIN log : log[i][1] = "log" /\ log[i][2] = "gin.DefaultWriter"}

\* C12: under LoggingWithConfig with a config whose Output is not set, a call
\* that the service answers is logged to gin.DefaultWriter and completes with
\* status 200.
C12_OutputIsOptional ==
    (/\ firstGiven("logging")
     /\ reg.middlewares[1].config.Output = "nil"
     /\ reg.middlewares[1].config.Skipper = "nil"
     /\ ended
     /\ handlerRan
     /\ req.outcome = "reply") =>
        /\ mpc = "done"
        /\ ctx.status = StatusOK
        /\ defaultWriterLines # {}

\* C13: with NewOperationMiddleware(op, mw).Apply() in front of the generated
\* handlers, mw has run for a request routed to operation op, and has not
\* for a request routed to another operation.
C13_OperationMiddlewareApplies ==
    (firstGiven("operation") /\ mpc = "done" /\ handlerRan) =>
        (markRan("a") <=> ctx.Keys["operation"] = reg.middlewares[1].operation)

\* The places of the log where a middleware of the group, or the generated
\* handler, began
marksAt == {i \in DOMAIN log : log[i][1] = "mark"}
handlersAt == {i \in DOMAIN log : log[i][1] = "handler"}

\* C14: under mg.Wrap() what the middlewares of the group do before their
\* c.Next() is done before the downstream handler runs, and that runs at
\* most once.
C14_WrapIsApply ==
    (firstGiven("wrap") /\ ended) =>
        /\ \A i \in marksAt : \A j \in handlersAt : i < j
        /\ Cardinality(handlersAt) <= 1

\* C15: when the service method returns an error the generated handler
\* records it, writes no reply and the response has not status 200.
C15_ErrorStatusOnError ==
    (mpc = "done" /\ handlerRan /\ req.outcome = "error") =>
        /\ ctx.Errors # <<>>
        /\ ctx.body # "reply"
        /\ ctx.status # StatusOK

\* C20: under RecoveryFunc(f) a panic of the service method is recovered by
\* calling f.
C20_RecoveryFuncCallsF ==
    (firstGiven("ginRecovery") /\ ended /\ req.outcome = "panic" /\ handlerRan) =>
        /\ mpc = "done"
        /\ \E i \in DOMAIN log : log[i][1] = "recoveryFunc"

(***************************************************************************)
(* The properties of the binding package and of the client package         *)
(***************************************************************************)
\* The call of fn has returned
returned(fn) == callIn.fn = fn /\ callOut # NoResult

\* The names of the Content-Type header and their binders, in the order of
\* the claim
BinderTable ==
    <<<<ApplicationXML, "ctx.BindXML">>, <<TextXML, "ctx.BindXML">>,
      <<ApplicationYAML, "ctx.BindYAML">>, <<TextYAML, "ctx.BindYAML">>,
      <<ApplicationTOML, "ctx.BindTOML">>,
      <<ApplicationProtoBuf, "ginbinding.ProtoBuf">>,
      <<ApplicationMsgPack, "ginbinding.MsgPack">>,
      <<MultipartForm, "ginbinding.FormMultipart">>,
      <<FormURLEncoded, "ctx.Bind">>>>

\* The rows whose name the header contains
rowsIn(contentType) ==
    {i \in DOMAIN BinderTable : Contains(contentType, BinderTable[i][1])}

\* The binder of the first row whose name occurs in the header, JSON if none
firstBinder(rows) ==
    IF rows = {} THEN "ctx.BindJSON"
    ELSE BinderTable[CHOOSE i \in rows : \A j \in rows : i <= j][2]

\* C16 as amended: BindByContentType calls the binder of the first name, in
\* the order of the claim, that occurs anywhere in the Content-Type header,
\* the JSON binder when none occurs, and returns that binder's error.
C16_BinderByContainment ==
    returned("BindByContentType") =>
        /\ callOut.binder = firstBinder(rowsIn(callIn.contentType))
        /\ callOut.err = callIn.bindErr

\* application/xml-dtd has gone to the XML binder, whose error came back.
C16_Witness ==
    /\ returned("BindByContentType")
    /\ callIn.contentType = ApplicationXML \o <<"-", "d", "t", "d">>
    /\ callIn.bindErr = "err"
    /\ callOut.binder = "ctx.BindXML"
    /\ callOut.err = "err"

\* The media type of a header: what stands before its parameters
mediaType(contentType) == TrimSpace(Split(contentType, ";")[1])

\* The binder of the row that has this name, JSON if none has
binderNamed(name) ==
    IF \E i \in DOMAIN BinderTable : BinderTable[i][1] = name
    THEN BinderTable[CHOOSE i \in DOMAIN BinderTable : BinderTable[i][1] = name][2]
    ELSE "ctx.BindJSON"

\* C16: BindByContentType calls the binder that the claim gives for the
\* header's media type, the JSON binder for every other media type, and
\* returns that binder's error.
C16_BinderByMediaType ==
    returned("BindByContentType") =>
        /\ callOut.binder = binderNamed(mediaType(callIn.contentType))
        /\ callOut.err = callIn.bindErr

\* Invoke's method is one of its seven, in any case
supported(method) == ToUpper(method) \in HTTPMethods

\* C17 as amended: for another method Invoke returns an error and sends
\* nothing; for one of its methods it sends the request and returns resty's
\* error if resty reports one, else an *HTTPError with the status as its Code
\* for a status above 399, else nil.
C17_InvokeResult ==
    returned("Invoke") =>
        IF ~supported(callIn.method)
        THEN ~callOut.sent /\ callOut.err.type = "error"
        ELSE /\ callOut.sent
             /\ IF callIn.resty.err # "nil" THEN callOut.err.type = "error"
                ELSE IF callIn.resty.status > 399
                THEN /\ IsHTTPError(callOut.err)
                     /\ GetHTTPStatusCode(callOut.err) = callIn.resty.status
                ELSE callOut.err = NoError

\* A reply with status 200 that resty could not decode has made Invoke,
\* called with "get", return an error.
C17_Witness ==
    /\ returned("Invoke")
    /\ callIn.method = <<"g", "e", "t">>
    /\ callIn.resty = [err |-> "decode", status |-> 200]
    /\ callOut.sent
    /\ callOut.err.type = "error"

\* C17: Invoke returns nil exactly when the method is one of its seven and
\* the response has no error status, an *HTTPError with the status for a
\* response with an error status, and an error without sending for another
\* method.
C17_NilExactlyOnSuccess ==
    returned("Invoke") =>
        /\ callOut.err = NoError
              <=> /\ supported(callIn.method)
                  /\ callIn.resty.status # 0
                  /\ callIn.resty.status <= 399
        /\ (supported(callIn.method) /\ callIn.resty.status > 399) =>
              /\ IsHTTPError(callOut.err)
              /\ GetHTTPStatusCode(callOut.err) = callIn.resty.status
        /\ ~supported(callIn.method) => (~callOut.sent /\ callOut.err # NoError)

\* DefaultErrorDecoder(resp)
DefaultErrorDecoder(status) == IF status >= 400 THEN HTTPError(status) ELSE NoError

\* The decoder of ExampleClient_errorHandling
customDecoder(status) ==
    IF status = 404 THEN Errorf("resource not found") ELSE DefaultErrorDecoder(status)

\* C18: a client built with WithErrorDecoder(d) returns, for a response with
\* an error status, the error that d makes of the response.
C18_ErrorDecoderDecides ==
    (/\ returned("Invoke")
     /\ callIn.opts.errorDecoder = "custom"
     /\ supported(callIn.method)
     /\ callIn.resty.err = "nil"
     /\ IsError(callIn.resty.status)) =>
        callOut.err = customDecoder(callIn.resty.status)

\* The value of a field as text, whatever the value
valueText(field) ==
    IF field.kind = "string" THEN field.str
    ELSE IF field.kind = "int" THEN FormatInt(field.int)
    ELSE IF field.bool THEN <<"t", "r", "u", "e">>
    ELSE <<"f", "a", "l", "s", "e">>

\* The template with the placeholder of every uri-tagged field from the i-th
\* on replaced by the field's value
RECURSIVE everyPlaceholder(_, _, _)
everyPlaceholder(fields, i, path) ==
    IF i > Len(fields) THEN path
    ELSE everyPlaceholder(
           fields, i + 1,
           IF fields[i].uri # <<>>
           THEN ReplaceAll(path, <<"{">> \o fields[i].uri \o <<"}">>, valueText(fields[i]))
           ELSE path)

\* tag=value of every form-tagged field from the i-th on
RECURSIVE everyFormField(_, _)
everyFormField(fields, i) ==
    IF i > Len(fields) THEN <<>>
    ELSE (IF fields[i].form # <<>>
          THEN <<QueryEscape(fields[i].form) \o <<"=">> \o QueryEscape(valueText(fields[i]))>>
          ELSE <<>>)
         \o everyFormField(fields, i + 1)

\* The path with the parameters after "?", or after "&" when it has a "?"
withQuery(path, params) ==
    IF params = <<>> THEN path
    ELSE path \o (IF Contains(path, <<"?">>) THEN <<"&">> ELSE <<"?">>) \o Join(params, "&")

\* C19: for a struct or a pointer to one EncodeURL returns the template with
\* every placeholder of a uri-tagged field replaced by the field's value and,
\* when query is set, every form-tagged field appended as tag=value in the
\* order of the fields; for another input it returns the template.
C19_EncodeURL ==
    returned("EncodeURL") =>
        callOut.url = IF callIn.input.kind \in {"struct", "ptr"}
                      THEN withQuery(everyPlaceholder(callIn.input.fields, 1,
                                                      callIn.pathTemplate),
                                     IF callIn.query
                                     THEN everyFormField(callIn.input.fields, 1)
                                     ELSE <<>>)
                      ELSE callIn.pathTemplate

(***************************************************************************)
(* The properties of the generated handler and of the generated client     *)
(***************************************************************************)
\* The binding steps that apply to a rule, in the order body, query, URI
applies(rule, step) ==
    CASE step = "body" -> rule.body # <<>>
      [] step = "query" -> rule.body # <<"*">>
      [] OTHER -> \E i \in DOMAIN rule.path : rule.path[i] = "{"
stepsOf(rule) == SelectSeq(<<"body", "query", "uri">>, LAMBDA step : applies(rule, step))

\* The applicable steps up to the first one that fails, that one included
untilFailure(steps, fails) ==
    LET failing == {i \in DOMAIN steps : steps[i] \in fails}
    IN  IF failing = {} THEN steps
        ELSE SubSeq(steps, 1, CHOOSE i \in failing : \A j \in failing : i <= j)

\* What a whole run of the handler h does, in order
wholeRun(h) ==
    <<"operation">> \o untilFailure(stepsOf(h.rule), h.fails)
    \o (IF \E i \in DOMAIN stepsOf(h.rule) : stepsOf(h.rule)[i] \in h.fails THEN <<>>
        ELSE IF h.srv = "error" THEN <<"srv">>
        ELSE <<"srv", "reply">>)

\* C21: the generated handler sets the operation first, then binds body,
\* query string and URI parameters in that order, each only when it applies
\* to the rule; it calls the service method at most once and only after all
\* of them succeeded; at the first failing step it records the error and
\* returns without calling the service or writing the reply.
C21_HandlerOrder ==
    handler # NoCall =>
        /\ Len(handler.trace) <= Len(wholeRun(handler))
        /\ handler.trace = SubSeq(wholeRun(handler), 1, Len(handler.trace))
        /\ Len(handler.trace) > 0 => "operation" \in DOMAIN handler.Keys
        /\ handler.pc = "returned" =>
              /\ handler.trace = wholeRun(handler)
              /\ handler.body = (IF handler.trace[Len(handler.trace)] = "reply"
                                 THEN "reply" ELSE "none")
              /\ handler.trace[Len(handler.trace)] # "reply" => handler.Errors # <<>>

\* A handler whose rule names a body field and has a placeholder has bound
\* body and query, failed to bind the URI and returned
C21_Witness ==
    /\ handler # NoCall
    /\ handler.pc = "returned"
    /\ handler.trace = <<"operation", "body", "query", "uri">>
    /\ handler.Errors # <<>>
    /\ handler.body = "none"

\* C22: for every generated client method and every request message, the
\* request that the generated handler of the same rule decodes equals the
\* request given to the client, and the path sent has no placeholder left.
C22_RoundTrip ==
    returned("RoundTrip") =>
        /\ callOut.served.status = StatusOK
        /\ callOut.served.in = callIn.in
        /\ \A i \in DOMAIN callOut.sent.path : callOut.sent.path[i] \notin {"{", "}"}

\* The entries of MethodSets, from which the constants, the interface and
\* the client of the service fullName are rendered, that are called name
methodSetsOf(fullName, name) ==
    LET k == CHOOSE i \in DOMAIN generated.services :
                generated.services[i].ServiceName = fullName
    IN  {generated.services[k].MethodSets[n] :
            n \in {x \in DOMAIN generated.services[k].MethodSets :
                      generated.services[k].MethodSets[x].Name = name}}

\* The descriptor md has the verb, path and body selector of rule
ofRule(md, rule) ==
    /\ md.Method = ruleMethod(rule)
    /\ md.ClientPath = rule.path
    /\ md.HasBody = (rule.body # <<>>)
    /\ md.Body = (IF rule.body \in {<<>>, <<"*">>} THEN <<>>
                  ELSE <<".">> \o camelCaseVars(rule.body))

\* C23: when the file has been generated, a method with additional bindings
\* is once in MethodSets, from which the server interface, the operation
\* constants and the client are rendered, and its entry there has the verb,
\* path and body selector of the primary rule.
C23_ClientUsesPrimaryRule ==
    (gpc = "done" /\ generated # NoFile) =>
        \A si \in DOMAIN file.services : \A mi \in DOMAIN file.services[si].methods :
            (/\ ~isStreaming(file.services[si].methods[mi])
             /\ file.services[si].methods[mi].rule # NoRule
             /\ file.services[si].methods[mi].rule.bindings # <<>>)
                => /\ Cardinality(methodSetsOf(file.services[si].fullName,
                                               file.services[si].methods[mi].goName)) = 1
                   /\ \A md \in methodSetsOf(file.services[si].fullName,
                                             file.services[si].methods[mi].goName) :
                         /\ ofRule(md, file.services[si].methods[mi].rule)
                         /\ md.OriginalName = file.services[si].methods[mi].name

\* A generated file with a method of MaxBindings additional bindings, none
\* of which has the primary rule's verb
C23_Witness ==
    /\ gpc = "done"
    /\ generated # NoFile
    /\ \E si \in DOMAIN file.services : \E mi \in DOMAIN file.services[si].methods :
          /\ ~isStreaming(file.services[si].methods[mi])
          /\ file.services[si].methods[mi].rule # NoRule
          /\ Len(file.services[si].methods[mi].rule.bindings) = MaxBindings
          /\ \A b \in DOMAIN file.services[si].methods[mi].rule.bindings :
                ~ofRule(CHOOSE md \in methodSetsOf(file.services[si].fullName,
                                                   file.services[si].methods[mi].goName) : TRUE,
                        file.services[si].methods[mi].rule.bindings[b])

(***************************************************************************)
(* More properties of the middleware package                               *)
(***************************************************************************)
\* The only middleware of the routes is an authentication middleware
authGiven ==
    /\ registeredBy("RegisterHTTPServerWithMiddleware")
    /\ Len(reg.middlewares) = 1
    /\ reg.middlewares[1].kind \in {"bearer", "apikey", "jwt"}

\* The request fails one of the checks of the authentication middleware mw
\* and is not skipped
failsCheck(mw, r) ==
    "error" = (CASE mw.kind = "bearer" -> bearerDecision(mw.config, r.Authorization)
                 [] mw.kind = "jwt" -> jwtDecision(mw.config, r.Authorization)
                 [] OTHER -> apiKeyDecision(mw.config, GetHeader(r, mw.headerName)))

\* C24: for every AuthConfig, the middlewares of BearerAuthWithConfig,
\* APIKeyAuthWithConfig and JWTAuthWithConfig let the downstream handler run
\* only for a request that is skipped or passes every check: a request that
\* fails a check never reaches the generated handler.
C24_FailedCheckStops ==
    (authGiven /\ req # NoRequest /\ routed(req.Method, req.Path) # {}
       /\ failsCheck(reg.middlewares[1], req))
        => ~handlerRan

\* C25: on an OPTIONS request that Skipper does not skip, CORSWithConfig's
\* handler answers the preflight itself: the status is 204, the
\* Access-Control-Allow-Methods, -Headers and -Max-Age headers that the
\* config gives are set, and no handler after it in the chain runs.
C25_PreflightAnswered ==
    (/\ firstGiven("cors")
     /\ ~skips(reg.middlewares[1].config)
     /\ ended
     /\ req.Method = "OPTIONS"
     /\ ctx.handlers # <<>>) =>
        /\ mpc = "done"
        /\ ctx.status = StatusNoContent
        /\ preflightHeaders(reg.middlewares[1].config, req) \subseteq ctx.Header
        /\ ~handlerRan

(***************************************************************************)
(* More properties of the client package                                   *)
(***************************************************************************)
\* C26: after any sequence of requests through one client, the failure
\* counter of CircuitBreakerMiddleware(threshold) is the number of requests
\* that failed since the last reset, and a request is refused only when at
\* least threshold requests have failed since then and the last failure is
\* less than 30 seconds old.
C26_CountsFailedRequests ==
    breaker # NoCall =>
        /\ breaker.failures = breaker.failed
        /\ breaker.last = "refused" => breaker.failed >= breaker.threshold

\* C27: when the server answers with an error status, the error that the
\* generated client method returns is recognised by IsHTTPError, and
\* GetHTTPStatusCode, IsClientError and IsServerError classify it by the
\* status of the response.
C27_ClientErrorIsHTTPError ==
    (/\ returned("ClientMethod")
     /\ callIn.resty.err = "nil"
     /\ IsError(callIn.resty.status)) =>
        /\ IsHTTPError(callOut.err)
        /\ GetHTTPStatusCode(callOut.err) = callIn.resty.status
        /\ IsClientError(callOut.err)
              = (callIn.resty.status >= 400 /\ callIn.resty.status < 500)
        /\ IsServerError(callOut.err) = (callIn.resty.status >= 500)

(***************************************************************************)
(* More properties of the generator                                        *)
(***************************************************************************)
\* The routes of the generated file, service after service
RECURSIVE routesFrom(_)
routesFrom(k) ==
    IF k > Len(generated.services) THEN <<>>
    ELSE generated.services[k].Methods \o routesFrom(k + 1)

\* The number of routes before the i-th of rs that call a method of its name
earlierOfName(rs, i) == Cardinality({j \in 1..(i - 1) : rs[j].Name = rs[i].Name})

\* C28: the handler-name suffix Num of each route of a generated file
\* depends on the file alone: it is the number of routes of the file before
\* it with the same method name, whatever was generated earlier in the run.
C28_NumDependsOnFileOnly ==
    (gpc = "done" /\ generated # NoFile) =>
        \A i \in DOMAIN routesFrom(1) :
            routesFrom(1)[i].Num = earlierOfName(routesFrom(1), i)

\* C28: within one service no two routes have the same handler name
\* _<Service>_<Name><Num>_HTTP_Handler.
C28_HandlerNamesDiffer ==
    (gpc = "done" /\ generated # NoFile) =>
        \A k \in DOMAIN generated.services :
            \A i, j \in DOMAIN generated.services[k].Methods :
                (/\ generated.services[k].Methods[i].Name
                      = generated.services[k].Methods[j].Name
                 /\ generated.services[k].Methods[i].Num
                      = generated.services[k].Methods[j].Num) => i = j

=============================================================================
